---- MODULE Spec2Model ----
(***************************************************************************)
(* Model of the kapuchin monkey-patching engine                            *)
(* (src/extras/kapuchin_monkey.py): apply / revert / get_original_attribute *)
(* over the attribute dictionaries of Python objects.                      *)
(*                                                                         *)
(* The destinations are two classes, Base and Derived(Base), and one       *)
(* instance, inst, of Derived.  Every object owns a __dict__, a function    *)
(* from attribute names (strings) to values.  The engine keeps its         *)
(* bookkeeping in the destination itself, under the attribute names        *)
(* _monkey_created_<name>, _monkey_ids_<name>, _monkey_item_<name>_<i>.    *)
(*                                                                         *)
(* Spec          apply / revert / get_original_attribute, whole calls      *)
(* SpecResolve   get_attribute on classes and an instance                  *)
(* SpecThreads   apply and revert from two threads, line by line           *)
(* SpecBuild     the modifier decorators and create_patches                *)
(* SpecRegister  decorator data registered and found through wrappers      *)
(* SpecFind      find_patches over a package of imported modules           *)
(* SpecRecords   apply / revert of patch records made for one slot         *)
(* SpecCallThrough  replacements calling call_original, step by step       *)
(* SpecMotor     the cached motor table of patches/tmc_autotune.py         *)
(* SpecLoad      KapuchinManager loading the [patch ...] sections          *)
(*               (src/klippy/extras/kapuchin.py)                           *)
(* SpecSlots     apply / revert on the slots of a class, of a class        *)
(*               derived from it and of an unrelated class                 *)
(* SpecWalk      create_patches turn by turn, with fairness                *)
(* SpecInstall   install() run several times and the hook it leaves        *)
(*                                                                         *)
(* The variables are shared by the specifications; each specification      *)
(* states in its Init what it keeps in them.                               *)
(***************************************************************************)
EXTENDS Integers, Sequences, FiniteSets, TLC

VARIABLES
    dict,    \* dict[o]: the __dict__ of object o (attribute name -> value)
    layers,  \* history: per destination, the applies not yet undone, oldest first
    last,    \* history: the last engine call, its outcome and what it saw
    run,     \* history: the current "N applies then N reverts" run on one slot
    patched, \* the destination the calls of this behaviour address
    res,     \* the last call of a function that changes nothing, and its result
    threads, \* the engine calls in progress on two threads, line by line
    world,   \* the template, the destination and the registered decorator data
    built    \* the last create_patches call: its arguments and what it returned

vars == <<dict, layers, last, run, patched, res, threads, world, built>>

(* ------------------------------ bounds -------------------------------- *)

\* The largest member value; values are 1..MaxValue.
MaxValue == 2

\* apply is not called on a slot whose stored id tuple already has this length.
MaxDepth == 2

\* apply is not called on a destination with this many applies not yet undone.
MaxLayers == 3

(* ------------------------- the object universe ------------------------ *)

Objs == {"Base", "Derived", "inst"}

Values == 1..MaxValue

\* The ids (tags) given to apply; 'default' is apply's default argument.
Ids == {"default", "x"}

\* The member name the patches of this model are about.
Member == "m"

\* The two universal root bases: every class derives from `object` and is
\* an instance of `type` (itself a class derived from `object`).
Roots == {"object", "type"}

\* The classes that create_patches works on: the destination Dest, the
\* classes DestInner and DestOther that Dest may hold as members, a second
\* destination Elsewhere, the class Thing of the instance `thing`, and the
\* template Tmpl(TmplBase) with its nested class Inner.
BuildClasses ==
    {"Dest", "DestInner", "DestOther", "Elsewhere", "Thing",
     "Tmpl", "TmplBase", "Inner"}

\* The instances of Thing: `thing` and the copy copy.deepcopy makes of it.
Things == {"thing", "thing_copy"}

\* isinstance(obj, _CLASS_TYPES)
IsClass(o) == o \in {"Base", "Derived"} \cup Roots \cup BuildClasses

\* type(o): `type` for a class, the class for an instance.
TypeOf(o) ==
    IF IsClass(o) THEN "type"
    ELSE IF o \in Things THEN "Thing"
    ELSE "Derived"

\* inspect.getmro(cls): most-derived first, ending with `object`.
getmro(cls) ==
    IF cls = "Derived" THEN <<"Derived", "Base", "object">>
    ELSE IF cls = "Tmpl" THEN <<"Tmpl", "TmplBase", "object">>
    ELSE IF cls = "object" THEN <<"object">>
    ELSE <<cls, "object">>

\* What the root bases define, of the names of this model: `object` and
\* `type` each define __init__, `type` defines mro and __name__.
Builtins ==
    [c \in Roots |->
        IF c = "object"
        THEN [k \in {"__init__"} |-> "object.__init__"]
        ELSE [k \in {"__init__", "mro", "__name__"} |-> "type." \o k]]

\* The own __dict__ of object o.
OwnDict(d, o) == IF o \in Roots THEN Builtins[o] ELSE d[o]

\* The computed properties (data descriptors that run an accessor) of the
\* classes of this model: where a class defines a member of this name, the
\* member is a property whose stored value is its accessor.
PropertyName == "p"

\* What running the accessor v of a property returns.
Computed(v) == "computed by " \o v

(* ------------------------- attribute access --------------------------- *)

Found(v) == [ok |-> TRUE, val |-> v]

\* The AttributeError outcome of a lookup.
NotFound == [ok |-> FALSE, val |-> 0]

\* The first object of the sequence objs whose own __dict__ holds name.
RECURSIVE FirstIn(_, _, _)
FirstIn(d, objs, name) ==
    IF objs = <<>> THEN NotFound
    ELSE IF name \in DOMAIN OwnDict(d, Head(objs))
         THEN Found(OwnDict(d, Head(objs))[name])
    ELSE FirstIn(d, Tail(objs), name)

\* object.__getattribute__(o, name), the generic lookup: the name is looked
\* up along the method resolution order of type(o); a data descriptor found
\* there wins (a property runs its accessor, type.__name__ gives the class's
\* name); else the value in o's own __dict__; else what type(o) provided;
\* else AttributeError.  For a class object type(o) is `type`, so its own
\* __dict__ is read raw and the names of `type` and `object` are found too.
object_getattribute(d, o, name) ==
    LET meta == FirstIn(d, getmro(TypeOf(o)), name)
    IN  IF meta.ok /\ name = PropertyName THEN Found(Computed(meta.val))
        ELSE IF meta.ok /\ name = "__name__" THEN Found(o)
        ELSE IF name \in DOMAIN OwnDict(d, o) THEN Found(OwnDict(d, o)[name])
        ELSE meta

\* get_attribute(obj, name): object.__getattribute__ on every class of the
\* method resolution order of a class, on the object itself otherwise.
RECURSIVE get_attribute_loop(_, _, _)
get_attribute_loop(d, objs, name) ==
    IF objs = <<>> THEN NotFound
    ELSE LET r == object_getattribute(d, Head(objs), name)
         IN  IF r.ok THEN r ELSE get_attribute_loop(d, Tail(objs), name)

get_attribute(d, obj, name) ==
    get_attribute_loop(d, IF IsClass(obj) THEN getmro(obj) ELSE <<obj>>, name)

\* The builtin getattr(o, name): a class looks the name up along its method
\* resolution order, an instance in its own __dict__ and then along its
\* type's.  `__name__` is an attribute of every class (a descriptor of
\* `type`) and of no plain instance.
getattr(d, o, name) ==
    IF name = "__name__"
    THEN (IF IsClass(o) THEN Found(o) ELSE NotFound)
    ELSE IF IsClass(o) THEN FirstIn(d, getmro(o), name)
    ELSE FirstIn(d, <<o>> \o getmro(TypeOf(o)), name)

\* getattr(o, name, default)
getattr3(d, o, name, default) ==
    LET r == getattr(d, o, name) IN IF r.ok THEN r.val ELSE default

\* setattr(o, name, value): writes o's own __dict__.
setattr(d, o, name, value) ==
    [d EXCEPT ![o] = [k \in DOMAIN d[o] \cup {name} |->
                         IF k = name THEN value ELSE d[o][k]]]

\* delattr(o, name): deletes from o's own __dict__; AttributeError when the
\* name is not there (also when a base class has it).
delattr(d, o, name) ==
    IF name \in DOMAIN d[o]
    THEN [dict |-> [d EXCEPT ![o] = [k \in DOMAIN d[o] \ {name} |-> d[o][k]]],
          exc |-> "none"]
    ELSE [dict |-> d, exc |-> "AttributeError"]

(* ------------------- the internal attribute names --------------------- *)

_PATTERN(s) == "_monkey_" \o s

_CREATED(name) == _PATTERN("created_" \o name)

\* The pattern with a plausible slip: the member name is left out.
_ORIGINAL_IDS_Unnamed(name) == _PATTERN("ids_")

_ORIGINAL_IDS(name) == _PATTERN("ids_" \o name)

_ORIGINAL_ITEM(name, i) == _PATTERN("item_" \o name \o "_" \o ToString(i))

(* ------------------------------ Patch --------------------------------- *)

Patch(destination, name, obj) ==
    [destination |-> destination, name |-> name, obj |-> obj]

(* ------------------------------ apply --------------------------------- *)

\* apply with a plausible slip: the original is stored at the first hit only;
\* a further apply on a slot that has stored originals just overwrites.
apply_StoreFirstHitOnly(d, patch, id) ==
    LET target == get_attribute(d, patch.destination, patch.name)
        original_ids == _ORIGINAL_IDS(patch.name)
        ids == getattr3(d, patch.destination, original_ids, <<>>)
        d1 == IF ~target.ok
              THEN setattr(d, patch.destination, _CREATED(patch.name), TRUE)
              ELSE IF ids # <<>> THEN d
              ELSE setattr(setattr(d, patch.destination,
                                   _ORIGINAL_ITEM(patch.name, 0), target.val),
                           patch.destination, original_ids, <<id>>)
    IN  setattr(d1, patch.destination, patch.name, patch.obj)

apply(d, patch, id) ==
    LET target == get_attribute(d, patch.destination, patch.name)
        d1 == IF ~target.ok
              THEN setattr(d, patch.destination, _CREATED(patch.name), TRUE)
              ELSE LET original_ids == _ORIGINAL_IDS(patch.name)
                       ids == getattr3(d, patch.destination, original_ids, <<>>)
                       original_item == _ORIGINAL_ITEM(patch.name, Len(ids))
                       d2 == setattr(d, patch.destination, original_item,
                                     target.val)
                   IN  setattr(d2, patch.destination, original_ids,
                               Append(ids, id))
    IN  setattr(d1, patch.destination, patch.name, patch.obj)

(* ------------------------------ revert -------------------------------- *)

\* revert with a plausible slip: the created flag is not consulted, so a
\* member that an apply created is looked for among the stored originals.
revert_IgnoresCreated(d, patch) ==
    LET original_ids == _ORIGINAL_IDS(patch.name)
        got == getattr(d, patch.destination, original_ids)
    IN
    IF ~got.ok \/ got.val = <<>>
    THEN IF getattr(d, patch.destination, "__name__").ok
         THEN [dict |-> d, exc |-> "RuntimeError"]
         ELSE [dict |-> d, exc |-> "AttributeError"]
    ELSE LET ids == got.val
             original_item == _ORIGINAL_ITEM(patch.name, Len(ids) - 1)
             attr == getattr(d, patch.destination, original_item)
         IN  IF ~attr.ok THEN [dict |-> d, exc |-> "AttributeError"]
             ELSE LET d1 == setattr(d, patch.destination, patch.name, attr.val)
                      r2 == delattr(d1, patch.destination, original_item)
                  IN  IF r2.exc # "none" THEN r2
                      ELSE [dict |-> setattr(r2.dict, patch.destination,
                                             original_ids,
                                             SubSeq(ids, 1, Len(ids) - 1)),
                            exc |-> "none"]

\* The result is the dictionaries after the call and the exception raised
\* ("none" when revert returns).
revert(d, patch) ==
    LET created == _CREATED(patch.name)
        original_ids == _ORIGINAL_IDS(patch.name)
        got == getattr(d, patch.destination, original_ids)
    IN
    IF getattr3(d, patch.destination, created, FALSE)
    THEN delattr(d, patch.destination, patch.name)
    ELSE IF ~got.ok \/ got.val = <<>>
    THEN \* raise RuntimeError(... .format(patch.destination.__name__))
         IF getattr(d, patch.destination, "__name__").ok
         THEN [dict |-> d, exc |-> "RuntimeError"]
         ELSE [dict |-> d, exc |-> "AttributeError"]
    ELSE LET ids == got.val
             original_item == _ORIGINAL_ITEM(patch.name, Len(ids) - 1)
             attr == getattr(d, patch.destination, original_item)
         IN  IF ~attr.ok THEN [dict |-> d, exc |-> "AttributeError"]
             ELSE LET d1 == setattr(d, patch.destination, patch.name, attr.val)
                      r2 == delattr(d1, patch.destination, original_item)
                  IN  IF r2.exc # "none" THEN r2
                      ELSE [dict |-> setattr(r2.dict, patch.destination,
                                             original_ids,
                                             SubSeq(ids, 1, Len(ids) - 1)),
                            exc |-> "none"]

(* ---------------------- get_original_attribute ------------------------ *)

\* The greatest index i (1-based here, i - 1 in the code) with ids[i] = id,
\* 0 when there is none: the scan of reversed(tuple(enumerate(ids))).
RECURSIVE LastMatch(_, _, _)
LastMatch(ids, i, id) ==
    IF i = 0 THEN 0
    ELSE IF ids[i] = id THEN i
    ELSE LastMatch(ids, i - 1, id)

\* get_original_attribute with a plausible slip: when no stored id matches,
\* the oldest stored original is returned instead of raising.
get_original_attribute_OldestOnMiss(d, obj, name, id) ==
    LET got == getattr(d, obj, _ORIGINAL_IDS(name))
    IN  IF ~got.ok \/ got.val = <<>> THEN NotFound
        ELSE LET i == LastMatch(got.val, Len(got.val), id)
             IN  getattr(d, obj, _ORIGINAL_ITEM(name, IF i = 0 THEN 0 ELSE i - 1))

\* The result is [ok, val]; ok = FALSE is the AttributeError the code raises.
\* (The first raise formats obj.__name__, whose failure on an instance is an
\* AttributeError as well.)
get_original_attribute(d, obj, name, id) ==
    LET got == getattr(d, obj, _ORIGINAL_IDS(name))
    IN  IF ~got.ok \/ got.val = <<>> THEN NotFound
        ELSE LET i == LastMatch(got.val, Len(got.val), id)
             IN  IF i = 0 THEN NotFound
                 ELSE getattr(d, obj, _ORIGINAL_ITEM(name, i - 1))

(* ------------------------- history records ---------------------------- *)

\* One apply not yet undone: its id and what get_attribute returned for the
\* slot right before it (NotFound for an apply that created the member).
Layer(id, prior) == [id |-> id, prior |-> prior]

NoCall ==
    [op |-> "none", dest |-> "none", obj |-> 0, id |-> "none", exc |-> "none",
     undone |-> <<>>, afterApply |-> FALSE, ret |-> NotFound]

NoResult == [op |-> "none", obj |-> "none", name |-> "none", ret |-> NotFound]

NoRun == [dest |-> "none", base |-> NotFound, n |-> 0, k |-> 0, failed |-> FALSE]

\* No call is in progress on any thread.
NoThreads == [calls |-> <<>>, start |-> <<>>, order |-> <<>>, overlapped |-> FALSE]

\* No template, destination or decorator data is set up.
NoWorld == [decl |-> <<>>, dict |-> <<>>, data |-> <<>>, n |-> 0]

\* create_patches has not been called.
NoBuild == [op |-> "none", opts |-> <<>>, out |-> <<>>, exc |-> "none",
            steps |-> <<>>]

\* The ids stored for destination o's member, as apply and revert read them.
StackIds(d, o) == getattr3(d, o, _ORIGINAL_IDS(Member), <<>>)

\* The created flag of destination o's member, as revert reads it.
CreatedFlag(d, o) == getattr3(d, o, _CREATED(Member), FALSE)

(* ------------------------------ Init ---------------------------------- *)

\* No patch has been applied: no object holds an internal attribute.  Each
\* object either defines the member itself (with value 1) or does not.
EmptyDict == [k \in {} |-> 0]

Init ==
    /\ dict \in [Objs -> {EmptyDict, [k \in {Member} |-> 1]}]
    /\ layers = [o \in Objs |-> <<>>]
    /\ last = NoCall
    /\ run = NoRun
    /\ patched \in Objs
    /\ res = NoResult
    /\ threads = NoThreads
    /\ world = NoWorld
    /\ built = NoBuild

(* ----------------------------- actions -------------------------------- *)

\* monkey.apply(Patch(o, Member, v), id)
Apply(o, v, id) ==
    /\ Len(StackIds(dict, o)) < MaxDepth
    /\ Len(layers[o]) < MaxLayers
    /\ LET prior == get_attribute(dict, o, Member)
       IN  /\ dict' = apply(dict, Patch(o, Member, v), id)
           /\ layers' = [layers EXCEPT ![o] = Append(@, Layer(id, prior))]
           /\ last' = [NoCall EXCEPT !.op = "apply", !.dest = o, !.obj = v,
                                     !.id = id]
           /\ run' = IF run.dest = o /\ run.k = 0
                     THEN [run EXCEPT !.n = @ + 1]
                     ELSE [NoRun EXCEPT !.dest = o, !.base = prior, !.n = 1]
           /\ UNCHANGED <<patched, res, threads, world, built>>

\* monkey.revert(Patch(o, Member, _))
Revert(o) ==
    LET r == revert(dict, Patch(o, Member, 0))
        pops == r.exc = "none" /\ layers[o] # <<>>
    IN  /\ dict' = r.dict
        /\ layers' = IF pops
                     THEN [layers EXCEPT ![o] = SubSeq(@, 1, Len(@) - 1)]
                     ELSE layers
        /\ last' = [NoCall EXCEPT
                       !.op = "revert", !.dest = o, !.exc = r.exc,
                       !.undone = IF pops THEN <<layers[o][Len(layers[o])]>>
                                  ELSE <<>>,
                       !.afterApply = (last.op = "apply" /\ last.dest = o)]
        /\ run' = IF run.dest = o /\ run.k < run.n
                  THEN [run EXCEPT !.k = @ + 1,
                                   !.failed = @ \/ r.exc # "none"]
                  ELSE NoRun
        /\ UNCHANGED <<patched, res, threads, world, built>>

\* monkey.get_original_attribute(o, Member, id)
GetOriginal(o, id) ==
    LET r == get_original_attribute(dict, o, Member, id)
    IN  /\ last' = [NoCall EXCEPT
                       !.op = "get_original", !.dest = o, !.id = id,
                       !.exc = IF r.ok THEN "none" ELSE "AttributeError",
                       !.ret = r]
        /\ UNCHANGED <<dict, layers, run, patched, res, threads, world, built>>

Next ==
    \/ \E v \in Values, id \in Ids : Apply(patched, v, id)
    \/ Revert(patched)
    \/ \E id \in Ids : GetOriginal(patched, id)

Spec == Init /\ [][Next]_vars

(* ------------------------- views of a slot ---------------------------- *)

\* resolve(o, Member) in the current state.
Cur(o) == get_attribute(dict, o, Member)

\* The stored (prior value, id) entries of o's member, oldest first, as
\* revert and get_original_attribute read them.
StackEntries(d, o) ==
    LET ids == StackIds(d, o)
    IN  [i \in 1..Len(ids) |->
            [id |-> ids[i],
             prior |-> getattr(d, o, _ORIGINAL_ITEM(Member, i - 1))]]

\* The applies not yet undone that did not create the member, oldest first.
RECURSIVE NonCreating(_)
NonCreating(ls) ==
    IF ls = <<>> THEN <<>>
    ELSE IF Head(ls).prior.ok THEN <<Head(ls)>> \o NonCreating(Tail(ls))
    ELSE NonCreating(Tail(ls))

\* The last call was a revert of o's member right after an apply to it.
RevertedRightAfterApply(o) ==
    last.op = "revert" /\ last.dest = o /\ last.afterApply

\* The layer of the apply that the last call, a revert, was to undo.
LayerToUndo(o) ==
    IF last.undone # <<>> THEN last.undone[1] ELSE layers[o][Len(layers[o])]

(* ------------------------------ claims -------------------------------- *)

\* C1: apply on a member the destination does not have makes the member
\* present with the patch's value, and the revert that follows leaves the
\* member absent again (get_attribute raises AttributeError).
C1_ApplyRevertAbsent ==
    \A o \in {patched} :
        /\ (last.op = "apply" /\ last.dest = o
              /\ ~layers[o][Len(layers[o])].prior.ok)
           => Cur(o) = Found(last.obj)
        /\ (RevertedRightAfterApply(o) /\ ~LayerToUndo(o).prior.ok)
           => (last.exc = "none" /\ ~Cur(o).ok)

C1_Witness ==
    \E o \in {patched} :
        /\ RevertedRightAfterApply(o)
        /\ last.exc = "none"
        /\ last.undone # <<>>
        /\ ~last.undone[1].prior.ok
        /\ ~Cur(o).ok

\* C2: apply on a member that is present with value V, followed at once by
\* revert, restores exactly V, whatever was done to the slot before.
C2_ApplyRevertPresent ==
    \A o \in {patched} :
        (RevertedRightAfterApply(o) /\ LayerToUndo(o).prior.ok)
        => (last.exc = "none" /\ Cur(o) = LayerToUndo(o).prior)

\* C3: N applies on one slot followed by N reverts return the slot to the
\* state it had before the first apply (its value, or absence), and none of
\* the N reverts fails.
C3_StackBalance ==
    /\ ~run.failed
    /\ (run.n > 0 /\ run.k = run.n) => Cur(run.dest) = run.base

\* C4: the created flag of a slot and a non-empty stack of stored originals
\* never hold together.
C4_CreatedExcludesStack ==
    \A o \in {patched} : ~(CreatedFlag(dict, o) /\ StackIds(dict, o) # <<>>)

\* C5: a revert on a slot whose created flag is set returns with the member
\* deleted and the flag cleared.
C5_RevertCreatedClearsFlag ==
    [][\A o \in {patched} :
          (last'.op = "revert" /\ last'.dest = o /\ CreatedFlag(dict, o))
          => /\ last'.exc = "none"
             /\ ~get_attribute(dict', o, Member).ok
             /\ ~CreatedFlag(dict', o)]_vars

\* C6: the length of a slot's stack of stored originals equals the number of
\* applies on the slot that did not create the member and are not yet undone.
C6_StackLength ==
    \A o \in {patched} : Len(StackIds(dict, o)) = Len(NonCreating(layers[o]))

\* C7: a revert that returns undoes the most recent apply not yet undone: the
\* slot is as it was right before that apply (its value, or absence), and the
\* entries stored by the older applies stay in place.
C7_RevertIsLifo ==
    \A o \in {patched} :
        (last.op = "revert" /\ last.dest = o /\ last.exc = "none"
           /\ last.undone # <<>>)
        => /\ Cur(o) = last.undone[1].prior
           /\ StackEntries(dict, o) = NonCreating(layers[o])

\* C8: get_original_attribute(o, Member, id) returns the prior value recorded
\* by the most recent apply with that id that is not yet undone, whatever
\* lies above it.
C8_GetOriginalNewestWithId ==
    \A o \in {patched}, id \in Ids :
        LET mine == NonCreating(layers[o])
            i == LastMatch([j \in 1..Len(mine) |-> mine[j].id], Len(mine), id)
        IN  i > 0 => get_original_attribute(dict, o, Member, id) = mine[i].prior

\* C9: apply on a slot that has a value returns without an error, whatever
\* is stacked already: the slot's value is then the patch's value and exactly
\* one entry, (previous value, id), has been pushed on top of the stack.
C9_ApplyOnPresentPushesOne ==
    [][\A o \in {patched} :
          (last'.op = "apply" /\ last'.dest = o
             /\ get_attribute(dict, o, Member).ok)
          => /\ last'.exc = "none"
             /\ get_attribute(dict', o, Member) = Found(last'.obj)
             /\ StackEntries(dict', o) =
                  Append(StackEntries(dict, o),
                         [id |-> last'.id,
                          prior |-> get_attribute(dict, o, Member)])]_vars

C9_Witness ==
    \E o \in {patched} :
        /\ last.op = "apply" /\ last.dest = o
        /\ layers[o][Len(layers[o])].prior.ok
        /\ Len(StackIds(dict, o)) >= 2
        /\ StackIds(dict, o)[1] # StackIds(dict, o)[2]
        /\ Cur(o) = Found(last.obj)

\* C10: a revert on a slot whose created flag is not set and whose stack is
\* missing or empty raises the Revert error (RuntimeError), for class and
\* instance destinations alike, and changes no attribute.
C10_RevertEmptyRaisesRevertError ==
    [][\A o \in {patched} :
          (last'.op = "revert" /\ last'.dest = o
             /\ ~CreatedFlag(dict, o) /\ StackIds(dict, o) = <<>>)
          => (last'.exc = "RuntimeError" /\ dict' = dict)]_vars

\* C11 (as claimed): get_original_attribute on a slot with no stack, an empty
\* stack or no stored entry with the id fails with the Revert error, the
\* RuntimeError that revert raises on an empty stack, and changes nothing.
C11_GetOriginalFailsWithRevertError ==
    [][\A o \in {patched} :
          (last'.op = "get_original" /\ last'.dest = o
             /\ \A i \in 1..Len(StackIds(dict, o)) :
                   StackIds(dict, o)[i] # last'.id)
          => (last'.exc = "RuntimeError" /\ dict' = dict)]_vars

\* C11 (amended): in those cases get_original_attribute fails with an
\* AttributeError (the NotFound kind), returns no value and changes nothing.
C11_GetOriginalFailsWithAttributeError ==
    [][\A o \in {patched} :
          (last'.op = "get_original" /\ last'.dest = o
             /\ \A i \in 1..Len(StackIds(dict, o)) :
                   StackIds(dict, o)[i] # last'.id)
          => (last'.exc = "AttributeError" /\ ~last'.ret.ok /\ dict' = dict)]_vars

C11_Witness ==
    \E o \in {patched} :
        /\ last.op = "get_original" /\ last.dest = o
        /\ last.exc = "AttributeError"
        /\ StackIds(dict, o) # <<>>
        /\ \A i \in 1..Len(StackIds(dict, o)) : StackIds(dict, o)[i] # last.id

(***************************************************************************)
(* get_attribute on its own: classes and an instance that define some of   *)
(* the names m, p (a property where a class defines it) and __init__.      *)
(***************************************************************************)

\* The names resolved: a plain member, the property, a name the root bases
\* define, a name only `type` defines, and a name nothing defines.
ResolveNames == {Member, PropertyName, "__init__", "mro", "nothing"}

\* A __dict__ of object o that defines exactly the names ns, each with a
\* value that tells where it is stored.
DictOf(o, ns) == [k \in ns |-> o \o "." \o k]

InitResolve ==
    /\ \E b \in SUBSET {Member, "__init__"},
          c \in SUBSET {Member, PropertyName},
          i \in SUBSET {Member, PropertyName} :
          dict = [o \in Objs |->
                     IF o = "Base" THEN DictOf(o, b)
                     ELSE IF o = "Derived" THEN DictOf(o, c)
                     ELSE DictOf(o, i)]
    /\ layers = [o \in Objs |-> <<>>]
    /\ last = NoCall
    /\ run = NoRun
    /\ patched = "Base"
    /\ res = NoResult
    /\ threads = NoThreads
    /\ world = NoWorld
    /\ built = NoBuild

\* monkey.get_attribute(o, name)
Resolve(o, name) ==
    /\ res' = [op |-> "resolve", obj |-> o, name |-> name,
               ret |-> get_attribute(dict, o, name)]
    /\ UNCHANGED <<dict, layers, last, run, patched, threads, world, built>>

NextResolve == \E o \in Objs, name \in ResolveNames : Resolve(o, name)

SpecResolve == InitResolve /\ [][NextResolve]_vars

\* The method resolution order of a class without the two root bases.
RECURSIVE WithoutRoots(_)
WithoutRoots(objs) ==
    IF objs = <<>> THEN <<>>
    ELSE IF Head(objs) \in Roots THEN WithoutRoots(Tail(objs))
    ELSE <<Head(objs)>> \o WithoutRoots(Tail(objs))

\* C12: get_attribute on a class returns the first definition found along
\* the class's method resolution order, most-derived first and without the
\* two root bases, and fails (AttributeError) when no class of that order
\* defines the name, so also for a name only a root base defines.
C12_ResolveClassFirstDefinition ==
    (res.op = "resolve" /\ IsClass(res.obj))
    => res.ret = FirstIn(dict, WithoutRoots(getmro(res.obj)), res.name)

\* C13: get_attribute on an instance never runs the accessor of a property
\* that the instance's type defines for the name, and returns the raw value
\* stored in the instance where it stores one.
C13_ResolveInstanceRaw ==
    (res.op = "resolve" /\ ~IsClass(res.obj))
    => /\ \A c \in Objs : res.name \in DOMAIN dict[c]
                => res.ret # Found(Computed(dict[c][res.name]))
       /\ res.name \in DOMAIN dict[res.obj]
             => res.ret = Found(dict[res.obj][res.name])

(***************************************************************************)
(* apply and revert called from two threads on one slot, with no lock: a   *)
(* call runs line by line, each access of the destination's attributes is  *)
(* one step, and the steps of the two calls interleave freely.             *)
(***************************************************************************)

ThreadIds == {1, 2}

\* The destination whose member both threads patch.
Shared == "Base"

\* A call of apply or revert that has not started: its arguments, the line
\* it is at and its local variables target, ids and attr.
Call(op, patch, id) ==
    [op |-> op, patch |-> patch, id |-> id, pc |-> "start",
     target |-> NotFound, ids |-> <<>>, attr |-> NotFound, exc |-> "none"]

\* apply_step with a plausible slip: the id tuple written back holds the new
\* id only, the ids read before are dropped.
apply_step_DropsOlderIds(d, c) ==
    LET dest == c.patch.destination
        name == c.patch.name
    IN
    IF c.pc = "start"
    THEN LET t == get_attribute(d, dest, name)
         IN  [dict |-> d,
              call |-> [c EXCEPT !.target = t,
                           !.pc = IF t.ok THEN "read_ids" ELSE "set_created"]]
    ELSE IF c.pc = "set_created"
    THEN [dict |-> setattr(d, dest, _CREATED(name), TRUE),
          call |-> [c EXCEPT !.pc = "write_member"]]
    ELSE IF c.pc = "read_ids"
    THEN [dict |-> d,
          call |-> [c EXCEPT
                       !.ids = getattr3(d, dest, _ORIGINAL_IDS(name), <<>>),
                       !.pc = "write_item"]]
    ELSE IF c.pc = "write_item"
    THEN [dict |-> setattr(d, dest, _ORIGINAL_ITEM(name, Len(c.ids)),
                           c.target.val),
          call |-> [c EXCEPT !.pc = "write_ids"]]
    ELSE IF c.pc = "write_ids"
    THEN [dict |-> setattr(d, dest, _ORIGINAL_IDS(name), <<c.id>>),
          call |-> [c EXCEPT !.ids = <<c.id>>, !.pc = "write_member"]]
    ELSE [dict |-> setattr(d, dest, name, c.patch.obj),
          call |-> [c EXCEPT !.pc = "done"]]

\* One step of a call of apply: the line at c.pc runs on the dictionaries d.
\* The result is the dictionaries and the call after the step.
apply_step(d, c) ==
    LET dest == c.patch.destination
        name == c.patch.name
    IN
    IF c.pc = "start"
    THEN \* target = get_attribute(patch.destination, patch.name)
         LET t == get_attribute(d, dest, name)
         IN  [dict |-> d,
              call |-> [c EXCEPT !.target = t,
                           !.pc = IF t.ok THEN "read_ids" ELSE "set_created"]]
    ELSE IF c.pc = "set_created"
    THEN \* setattr(patch.destination, created, True)
         [dict |-> setattr(d, dest, _CREATED(name), TRUE),
          call |-> [c EXCEPT !.pc = "write_member"]]
    ELSE IF c.pc = "read_ids"
    THEN \* ids = getattr(patch.destination, original_ids, ())
         [dict |-> d,
          call |-> [c EXCEPT
                       !.ids = getattr3(d, dest, _ORIGINAL_IDS(name), <<>>),
                       !.pc = "write_item"]]
    ELSE IF c.pc = "write_item"
    THEN \* setattr(patch.destination, original_item, target)
         [dict |-> setattr(d, dest, _ORIGINAL_ITEM(name, Len(c.ids)),
                           c.target.val),
          call |-> [c EXCEPT !.pc = "write_ids"]]
    ELSE IF c.pc = "write_ids"
    THEN \* ids += (id,); setattr(patch.destination, original_ids, ids)
         [dict |-> setattr(d, dest, _ORIGINAL_IDS(name), Append(c.ids, c.id)),
          call |-> [c EXCEPT !.ids = Append(c.ids, c.id),
                             !.pc = "write_member"]]
    ELSE \* setattr(patch.destination, patch.name, patch.obj)
         [dict |-> setattr(d, dest, name, c.patch.obj),
          call |-> [c EXCEPT !.pc = "done"]]

\* One step of a call of revert.
revert_step(d, c) ==
    LET dest == c.patch.destination
        name == c.patch.name
    IN
    IF c.pc = "start"
    THEN \* if getattr(patch.destination, created, False):
         [dict |-> d,
          call |-> [c EXCEPT
                       !.pc = IF getattr3(d, dest, _CREATED(name), FALSE)
                              THEN "del_member" ELSE "read_ids"]]
    ELSE IF c.pc = "del_member"
    THEN \* delattr(patch.destination, patch.name); return
         LET r == delattr(d, dest, name)
         IN  [dict |-> r.dict, call |-> [c EXCEPT !.exc = r.exc, !.pc = "done"]]
    ELSE IF c.pc = "read_ids"
    THEN \* ids = getattr(patch.destination, original_ids), or RuntimeError
         LET got == getattr(d, dest, _ORIGINAL_IDS(name))
         IN  IF ~got.ok \/ got.val = <<>>
             THEN [dict |-> d,
                   call |-> [c EXCEPT
                                !.exc = IF getattr(d, dest, "__name__").ok
                                        THEN "RuntimeError"
                                        ELSE "AttributeError",
                                !.pc = "done"]]
             ELSE [dict |-> d,
                   call |-> [c EXCEPT !.ids = got.val, !.pc = "read_item"]]
    ELSE IF c.pc = "read_item"
    THEN \* attr = getattr(patch.destination, original_item)
         LET a == getattr(d, dest, _ORIGINAL_ITEM(name, Len(c.ids) - 1))
         IN  IF a.ok
             THEN [dict |-> d,
                   call |-> [c EXCEPT !.attr = a, !.pc = "write_member"]]
             ELSE [dict |-> d,
                   call |-> [c EXCEPT !.exc = "AttributeError", !.pc = "done"]]
    ELSE IF c.pc = "write_member"
    THEN \* setattr(patch.destination, patch.name, attr)
         [dict |-> setattr(d, dest, name, c.attr.val),
          call |-> [c EXCEPT !.pc = "del_item"]]
    ELSE IF c.pc = "del_item"
    THEN \* delattr(patch.destination, original_item)
         LET r == delattr(d, dest, _ORIGINAL_ITEM(name, Len(c.ids) - 1))
         IN  [dict |-> r.dict,
              call |-> [c EXCEPT !.exc = r.exc,
                           !.pc = IF r.exc = "none" THEN "write_ids"
                                  ELSE "done"]]
    ELSE \* setattr(patch.destination, original_ids, ids[:-1])
         [dict |-> setattr(d, dest, _ORIGINAL_IDS(name),
                           SubSeq(c.ids, 1, Len(c.ids) - 1)),
          call |-> [c EXCEPT !.pc = "done"]]

\* The destination has the member with value 1 and either no patch applied
\* or one.  Thread 1 calls apply; thread 2 calls apply or revert.
InitThreads ==
    /\ LET fresh == [o \in Objs |->
                        IF o = Shared THEN [k \in {Member} |-> 1]
                        ELSE EmptyDict]
       IN  \E v0 \in Values :
              dict \in {fresh, apply(fresh, Patch(Shared, Member, v0), "default")}
    /\ \E v1 \in Values, v2 \in Values :
          \E c2 \in {Call("apply", Patch(Shared, Member, v2), "x"),
                     Call("revert", Patch(Shared, Member, 0), "none")} :
             threads = [calls |-> <<Call("apply", Patch(Shared, Member, v1),
                                         "default"), c2>>,
                        start |-> <<dict>>,
                        order |-> <<>>,
                        overlapped |-> FALSE]
    /\ layers = [o \in Objs |-> <<>>]
    /\ last = NoCall
    /\ run = NoRun
    /\ patched = Shared
    /\ res = NoResult
    /\ world = NoWorld
    /\ built = NoBuild

\* History of a step of thread t that leaves its call as c: the calls
\* overlap when one starts while another is between its first and its last
\* line; order lists the threads as their calls end.
Stepped(t, c) ==
    [threads EXCEPT
        !.calls[t] = c,
        !.overlapped = @ \/ (/\ threads.calls[t].pc = "start"
                             /\ \E u \in ThreadIds \ {t} :
                                   threads.calls[u].pc \notin {"start", "done"}),
        !.order = IF c.pc = "done" THEN Append(@, t) ELSE @]

\* Thread t runs the next line of its call of apply.
ApplyStep(t) ==
    /\ threads.calls[t].op = "apply"
    /\ threads.calls[t].pc # "done"
    /\ LET r == apply_step(dict, threads.calls[t])
       IN  /\ dict' = r.dict
           /\ threads' = Stepped(t, r.call)
    /\ UNCHANGED <<layers, last, run, patched, res, world, built>>

\* Thread t runs the next line of its call of revert.
RevertStep(t) ==
    /\ threads.calls[t].op = "revert"
    /\ threads.calls[t].pc # "done"
    /\ LET r == revert_step(dict, threads.calls[t])
       IN  /\ dict' = r.dict
           /\ threads' = Stepped(t, r.call)
    /\ UNCHANGED <<layers, last, run, patched, res, world, built>>

NextThreads ==
    \/ \E t \in ThreadIds : ApplyStep(t)
    \/ \E t \in ThreadIds : RevertStep(t)

SpecThreads == InitThreads /\ [][NextThreads]_vars

\* Both calls have ended.
AllDone ==
    /\ threads.calls # <<>>
    /\ \A t \in ThreadIds : threads.calls[t].pc = "done"

\* The dictionaries after call c has run alone, from its first line to its
\* last, on the dictionaries d.
call_alone(d, c) ==
    IF c.op = "apply" THEN apply(d, c.patch, c.id) ELSE revert(d, c.patch).dict

\* The dictionaries after the two calls have run one after the other, in
\* the order they ended.
SerialOutcome ==
    call_alone(call_alone(threads.start[1], threads.calls[threads.order[1]]),
               threads.calls[threads.order[2]])

\* The threads whose call was op and returned without an exception.
Returned(op) ==
    {t \in ThreadIds : /\ threads.calls[t].op = op
                       /\ threads.calls[t].pc = "done"
                       /\ threads.calls[t].exc = "none"}

\* The stack invariant is broken: the stack's length is not the length at
\* the start plus the applies that returned minus the reverts that returned
\* (every apply here finds the member present), or a stored id has no
\* stored original.
StackBroken ==
    LET ids == StackIds(dict, Shared)
    IN  \/ Len(ids) # Len(StackIds(threads.start[1], Shared))
                        + Cardinality(Returned("apply"))
                        - Cardinality(Returned("revert"))
        \/ \E i \in 1..Len(ids) :
              ~getattr(dict, Shared, _ORIGINAL_ITEM(Member, i - 1)).ok

\* C14: apply and revert are not atomic.  Two calls on one slot that run one
\* after the other leave what they leave when run alone, with the stack
\* invariant intact; only calls whose lines interleave can break it, and
\* they do: two applies that both return can leave a single new stack entry
\* (the witness).
C14_InterleavingBreaksStack ==
    AllDone => /\ StackBroken => threads.overlapped
               /\ ~threads.overlapped => dict = SerialOutcome

C14_Witness ==
    /\ AllDone
    /\ \A t \in ThreadIds : threads.calls[t].op = "apply"
    /\ threads.overlapped
    /\ StackBroken
    /\ Len(StackIds(dict, Shared)) = Len(StackIds(threads.start[1], Shared)) + 1

(***************************************************************************)
(* create_patches and the modifier decorators.  A value is a record        *)
(* [kind, of]: its kind (function, class, module, instance, or a wrapper   *)
(* around a function) and the name that tells it from every other object   *)
(* (its identity; for a wrapper, the function it wraps).                   *)
(***************************************************************************)

\* At most this many modifier decorators are applied before create_patches.
MaxModifiers == 2

Value(kind, of) == [kind |-> kind, of |-> of]

Function(f) == Value("function", f)

Class(c) == Value("class", c)

ModuleObj(m) == Value("module", m)

PlainObject(o) == Value("instance", o)

\* No value (an override that is not set, no registration made).
Unset == Value("unset", "unset")

\* The wrappers around a function: staticmethod, classmethod and property
\* objects, and bound methods.
WrapperKinds == {"staticmethod", "classmethod", "property", "method"}

\* The identity of an object: a wrapper is another object than the function
\* it wraps.
Ident(v) == v.kind \o ":" \o v.of

\* The member names of the model in ascending order, as Python compares
\* strings: "I" < "O" < "_" < "a" < "b" < "f" < "h" < "o".
NameOrder == <<"Inner", "Other", "_bar", "a", "b", "foo", "helper", "only">>

NameRank(n) == CHOOSE i \in 1..Len(NameOrder) : NameOrder[i] = n

\* name.startswith('_'), for the names of the model.
startswith_underscore(n) == n \in {"_bar"}

\* default_filter(name, obj)
default_filter(n, obj) == ~(obj.kind = "module" \/ startswith_underscore(n))

\* filter(name, value) as create_patches and _get_members call it: the
\* parameter is default_filter, or None, which stands for _true.
call_filter(filter, n, value) ==
    IF filter = "None" THEN TRUE ELSE default_filter(n, value)

(* --------------------------- DecoratorData ---------------------------- *)

\* DecoratorData.override before any modifier: no key is set.
NoOverride == [destination |-> Unset, name |-> "unset"]

\* DecoratorData(): no patches, no override, filter None.
DecoratorData ==
    [exists |-> TRUE, patches |-> <<>>, override |-> NoOverride,
     filter |-> "None"]

\* The None that get_decorator_data returns for an object without data.
None == [DecoratorData EXCEPT !.exists = FALSE]

\* _get_base with a plausible slip: a property is not unwrapped.
RECURSIVE _get_base_KeepsProperty(_)
_get_base_KeepsProperty(obj) ==
    IF obj.kind \in {"staticmethod", "classmethod", "method"}
    THEN _get_base_KeepsProperty(Function(obj.of))
    ELSE obj

\* _get_base(obj): bound methods, staticmethod and classmethod objects have
\* __func__, a property has fget; anything else is its own base.
RECURSIVE _get_base(_)
_get_base(obj) ==
    IF obj.kind \in {"staticmethod", "classmethod", "method"}
    THEN _get_base(Function(obj.of))
    ELSE IF obj.kind = "property"
    THEN _get_base(Function(obj.of))
    ELSE obj

\* get_decorator_data(obj): the data stored on the object itself (for a
\* class, under the class's own key), None when there is none.
get_decorator_data(data, obj) ==
    IF Ident(obj) \in DOMAIN data THEN data[Ident(obj)] ELSE None

\* get_decorator_data(obj, set_default=True): the registry afterwards.
set_default(data, obj) ==
    IF get_decorator_data(data, obj).exists THEN data
    ELSE [data EXCEPT ![Ident(obj)] = DecoratorData]

\* monkey.destination(value)(wrapped): the registry afterwards.
destination_modifier(data, value, wrapped) ==
    LET base == _get_base(wrapped)
    IN  [set_default(data, base) EXCEPT
            ![Ident(base)].override.destination = value]

\* monkey.name(value)(wrapped)
name_modifier(data, value, wrapped) ==
    LET base == _get_base(wrapped)
    IN  [set_default(data, base) EXCEPT ![Ident(base)].override.name = value]

\* monkey.filter(value)(wrapped)
filter_modifier(data, value, wrapped) ==
    LET base == _get_base(wrapped)
    IN  [set_default(data, base) EXCEPT ![Ident(base)].filter = value]

(* ---------------------------- Patch._update --------------------------- *)

\* copy.deepcopy(value): classes and functions are returned as they are, an
\* instance is copied into a new object, a module cannot be copied
\* (TypeError, ok = FALSE).
deepcopy(v) ==
    IF v.kind = "module" THEN [ok |-> FALSE, val |-> v]
    ELSE IF v.kind = "instance"
    THEN [ok |-> TRUE, val |-> PlainObject(v.of \o "_copy")]
    ELSE [ok |-> TRUE, val |-> v]

\* patch_obj._update(**override): every key of the override is set to a
\* deep copy of its value.  ok = FALSE is the TypeError of the copy.
_update(patch_obj, override) ==
    LET dst == IF override.destination = Unset
               THEN [ok |-> TRUE, val |-> patch_obj.destination]
               ELSE deepcopy(override.destination)
    IN  [ok |-> dst.ok,
         val |-> [patch_obj EXCEPT
                     !.destination = dst.val,
                     !.name = IF override.name = "unset" THEN @
                              ELSE override.name]]

(* ---------------------------- _get_members ---------------------------- *)

\* getattr(root, '__dict__', {}).items() of each root in turn; decl[c] is
\* the __dict__ of c in the order its members were declared.
RECURSIVE items(_, _)
items(decl, roots) ==
    IF roots = <<>> THEN <<>>
    ELSE (IF Head(roots) \in DOMAIN decl THEN decl[Head(roots)] ELSE <<>>)
         \o items(decl, Tail(roots))

\* unseen with a plausible slip: a name seen before is taken again.
RECURSIVE unseen_KeepsDuplicates(_, _, _)
unseen_KeepsDuplicates(its, seen, filter) ==
    IF its = <<>> THEN <<>>
    ELSE LET rest == unseen_KeepsDuplicates(Tail(its), seen, filter)
         IN  IF call_filter(filter, Head(its)[1], Head(its)[2])
             THEN <<Head(its)>> \o rest
             ELSE rest

\* The loop over the items: a (name, value) is taken when the name was not
\* seen before and the filter accepts it; the name is seen either way.
RECURSIVE unseen(_, _, _)
unseen(its, seen, filter) ==
    IF its = <<>> THEN <<>>
    ELSE LET rest == unseen(Tail(its), seen \cup {Head(its)[1]}, filter)
         IN  IF Head(its)[1] \notin seen
                  /\ call_filter(filter, Head(its)[1], Head(its)[2])
             THEN <<Head(its)>> \o rest
             ELSE rest

\* F applied to the value of x: x is evaluated once, however often the body
\* of F refers to it.
Let(x, F(_)) == CHOOSE y \in {F(v) : v \in {x}} : TRUE

RECURSIVE insert(_, _)
insert(m, s) ==
    IF s = <<>> THEN <<m>>
    ELSE IF NameRank(m[1]) < NameRank(Head(s)[1]) THEN <<m>> \o s
    ELSE <<Head(s)>> \o insert(m, Tail(s))

\* sorted with a plausible slip: the members stay in declaration order.
sorted_AsDeclared(members) == members

\* sorted(members): (name, value) pairs in ascending order of the names.
RECURSIVE sorted(_)
sorted(members) ==
    IF members = <<>> THEN <<>>
    ELSE Let(sorted(Tail(members)), LAMBDA s : insert(Head(members), s))

\* The while loop of _get_members over its stack of objects.
RECURSIVE _get_members_loop(_, _, _, _, _)
_get_members_loop(decl, stack, traverse_bases, filter, recursive) ==
    IF stack = <<>> THEN <<>>
    ELSE LET obj == Head(stack)
             roots == IF traverse_bases /\ obj.kind = "class"
                      THEN WithoutRoots(getmro(obj.of))
                      ELSE <<obj.of>>
             members == Let(unseen(items(decl, roots), {}, filter), sorted)
             IsComposite(m) == m[2].kind = "class"
             pushed == IF recursive
                       THEN [i \in 1..Len(SelectSeq(members, IsComposite)) |->
                                SelectSeq(members, IsComposite)[i][2]]
                       ELSE <<>>
         IN  members \o _get_members_loop(decl, Tail(stack) \o pushed,
                                          traverse_bases, filter, recursive)

\* _get_members(obj, traverse_bases, filter, recursive)
_get_members(decl, obj, traverse_bases, filter, recursive) ==
    _get_members_loop(decl, <<obj>>, traverse_bases, filter, recursive)

(* --------------------------- create_patches --------------------------- *)

\* descend_or_emit with a plausible slip: any member the destination has
\* under the name is descended into, composite or not.
descend_or_emit_AnyTarget(d, patch_obj, value, recursive) ==
    LET target == get_attribute(d, patch_obj.destination.of, patch_obj.name)
    IN  IF recursive /\ value.kind = "class" /\ target.ok
        THEN [act |-> "push",
              patch |-> [patch_obj EXCEPT !.destination = target.val]]
        ELSE [act |-> "out", patch |-> patch_obj]

\* The end of the loop body: a composite value whose record's destination
\* has a composite member under the record's name goes back on the stack
\* with that member as its destination; anything else is appended to out.
descend_or_emit(d, patch_obj, value, recursive) ==
    LET target == get_attribute(d, patch_obj.destination.of, patch_obj.name)
    IN  IF recursive /\ value.kind = "class" /\ target.ok
           /\ target.val.kind = "class"
        THEN [act |-> "push",
              patch |-> [patch_obj EXCEPT !.destination = target.val]]
        ELSE [act |-> "out", patch |-> patch_obj]

\* is_filtered_out with a plausible slip: the filter's rejection is final,
\* whatever the decorator data say.
is_filtered_out_FilterFirst(filter_override, accepted) ==
    ~accepted \/ filter_override = "False"

\* (filter_override is None and not filter(name_, value))
\*     or filter_override is False
is_filtered_out(filter_override, accepted) ==
    (filter_override = "None" /\ ~accepted) \/ filter_override = "False"

\* The loop body for one member (name_, value) of parent_patch.obj: the
\* member is skipped, pushed on the stack, appended to out, or the call
\* raises.
candidate(w, parent_patch, name_, value, opts) ==
    LET patch_obj == Patch(parent_patch.destination, name_, value)
        decorator_data == get_decorator_data(w.data, _get_base(value))
        filter_override == IF decorator_data.exists THEN decorator_data.filter
                           ELSE "None"
        accepted == call_filter(opts.filter, name_, value)
        skip == [act |-> "skip", patch |-> patch_obj]
    IN  IF opts.use_decorators
        THEN IF is_filtered_out(filter_override, accepted) THEN skip
             ELSE IF decorator_data.exists
             THEN LET u == _update(patch_obj, decorator_data.override)
                  IN  IF u.ok
                      THEN descend_or_emit(w.dict, u.val, value, opts.recursive)
                      ELSE [act |-> "raise", patch |-> patch_obj]
             ELSE descend_or_emit(w.dict, patch_obj, value, opts.recursive)
        ELSE IF ~accepted THEN skip
        ELSE descend_or_emit(w.dict, patch_obj, value, opts.recursive)

\* out.append with a plausible slip: the record is applied to its
\* destination as soon as it is listed.
out_append_Applies(acc, patch_obj) ==
    [acc EXCEPT !.out = Append(@, patch_obj),
                !.w.dict = setattr(@, patch_obj.destination.of,
                                   patch_obj.name, patch_obj.obj)]

\* out.append(patch_obj): the record joins the list; nothing is written to
\* its destination or to the template (acc.w is the world as the call
\* leaves it).
out_append(acc, patch_obj) == [acc EXCEPT !.out = Append(@, patch_obj)]

\* for name_, value in members: ...
RECURSIVE members_loop(_, _, _, _, _)
members_loop(w, parent_patch, members, opts, acc) ==
    IF members = <<>> THEN acc
    ELSE LET c == candidate(w, parent_patch, Head(members)[1],
                            Head(members)[2], opts)
         IN  IF c.act = "raise" THEN [acc EXCEPT !.exc = "TypeError"]
             ELSE members_loop(w, parent_patch, Tail(members), opts,
                     IF c.act = "out"
                     THEN out_append(acc, c.patch)
                     ELSE IF c.act = "push"
                     THEN [acc EXCEPT !.stack = Append(@, c.patch)]
                     ELSE acc)

\* while stack: parent_patch = stack.popleft() ...
RECURSIVE create_patches_loop(_, _, _)
create_patches_loop(w, opts, acc) ==
    IF acc.stack = <<>> \/ acc.exc # "none" THEN acc
    ELSE LET parent_patch == Head(acc.stack)
             members == _get_members(w.decl, parent_patch.obj,
                                     opts.traverse_bases, "None", FALSE)
         IN  create_patches_loop(w, opts,
                 members_loop(w, parent_patch, members, opts,
                     [acc EXCEPT !.stack = Tail(@),
                                 !.steps = Append(@, parent_patch)]))

\* create_patches(destination, root, traverse_bases, filter, recursive,
\* use_decorators) in the world w.  The result is the list returned (out),
\* the exception raised ("none" when the call returns) and, as history, the
\* parent patches taken from the stack in turn (steps); w is the world as
\* the call leaves it.
create_patches(w, destination, root, opts) ==
    LET r == create_patches_loop(w, opts,
                 [out |-> <<>>, stack |-> <<Patch(destination, "", root)>>,
                  exc |-> "none", steps |-> <<>>, w |-> w])
    IN  [out |-> IF r.exc = "none" THEN r.out ELSE <<>>,
         exc |-> r.exc, steps |-> r.steps, w |-> r.w]

(* ------------------------------ the world ----------------------------- *)

\* A __dict__ from a set of <<name, value>> pairs.
Attrs(pairs) ==
    [k \in {p[1] : p \in pairs} |-> (CHOOSE p \in pairs : p[1] = k)[2]]

\* The template: class Tmpl(TmplBase) declares foo (a property), _bar and
\* the nested class Inner, which declares b and a; TmplBase declares only,
\* helper (a module) and its own foo.
TemplateDecl ==
    [c \in {"Tmpl", "TmplBase", "Inner"} |->
        IF c = "Tmpl"
        THEN << <<"foo", Value("property", "f_foo")>>,
                <<"_bar", Function("f_bar")>>,
                <<"Inner", Class("Inner")>> >>
        ELSE IF c = "TmplBase"
        THEN << <<"only", Function("f_only")>>,
                <<"helper", ModuleObj("mod")>>,
                <<"foo", Function("f_foo_base")>> >>
        ELSE << <<"b", Function("f_b")>>, <<"a", Function("f_a")>> >>]

\* The destinations: class Dest has foo, the class DestOther as its member
\* Other and, as its member Inner, the members given; `thing` (and its
\* copy) has the class DestInner as its member Inner; Elsewhere is empty.
DestDict(inner) ==
    [o \in BuildClasses \cup Things |->
        IF o = "Dest"
        THEN Attrs({<<"foo", Function("d_foo")>>,
                    <<"Other", Class("DestOther")>>} \cup inner)
        ELSE IF o = "DestInner" THEN Attrs({<<"a", Function("d_a")>>})
        ELSE IF o \in Things THEN Attrs({<<"Inner", Class("DestInner")>>})
        ELSE EmptyDict]

\* The forms in which one function can be met.
FormsOf(f) == {Value(k, f) : k \in {"function"} \cup WrapperKinds}

\* The objects that can carry decorator data, in every form.
AllIdents ==
    {Ident(v) : v \in FormsOf("f_foo") \cup FormsOf("f_bar")
                       \cup {Class("Inner")}}

\* The value that class c declares under the name n.
Declared(decl, c, n) ==
    decl[c][CHOOSE i \in DOMAIN decl[c] : decl[c][i][1] = n][2]

\* What the modifier decorators are applied to in the template's body: foo
\* (in the form Tmpl declares it), _bar and the nested class.
Decorated ==
    {Declared(world.decl, "Tmpl", "foo"), Function("f_bar"), Class("Inner")}

\* The destinations given to monkey.destination.
Retargets == {Class("Elsewhere"), PlainObject("thing"), ModuleObj("mod")}

InitBuild ==
    /\ \E inner \in {{}, {<<"Inner", Class("DestInner")>>},
                     {<<"Inner", Function("d_inner")>>}} :
          world = [decl |-> TemplateDecl,
                   dict |-> DestDict(inner),
                   data |-> [k \in AllIdents |-> None],
                   n |-> 0]
    /\ built = NoBuild
    /\ dict = [o \in Objs |-> EmptyDict]
    /\ layers = [o \in Objs |-> <<>>]
    /\ last = NoCall
    /\ run = NoRun
    /\ patched = "Base"
    /\ res = NoResult
    /\ threads = NoThreads

\* monkey.filter(value)(wrapped)
FilterModifier(wrapped, value) ==
    /\ world.n < MaxModifiers
    /\ world' = [world EXCEPT
                    !.data = filter_modifier(@, value, wrapped), !.n = @ + 1]
    /\ built' = NoBuild
    /\ UNCHANGED <<dict, layers, last, run, patched, res, threads>>

\* monkey.name("Other")(wrapped)
NameModifier(wrapped) ==
    /\ world.n < MaxModifiers
    /\ world' = [world EXCEPT
                    !.data = name_modifier(@, "Other", wrapped), !.n = @ + 1]
    /\ built' = NoBuild
    /\ UNCHANGED <<dict, layers, last, run, patched, res, threads>>

\* monkey.destination(value)(wrapped)
DestinationModifier(wrapped, value) ==
    /\ world.n < MaxModifiers
    /\ world' = [world EXCEPT
                    !.data = destination_modifier(@, value, wrapped),
                    !.n = @ + 1]
    /\ built' = NoBuild
    /\ UNCHANGED <<dict, layers, last, run, patched, res, threads>>

\* monkey.create_patches(Dest, Tmpl, traverse_bases=..., filter=...,
\*                       recursive=..., use_decorators=...), once the
\* decorators of the template's body have run.
Build(opts) ==
    /\ built.op = "none"
    /\ \E r \in {create_patches(world, Class("Dest"), Class("Tmpl"), opts)} :
          /\ built' = [op |-> "build", opts |-> opts, out |-> r.out,
                       exc |-> r.exc, steps |-> r.steps]
          /\ world' = r.w
    /\ UNCHANGED <<dict, layers, last, run, patched, res, threads>>

BuildOptions ==
    [traverse_bases : BOOLEAN, filter : {"default_filter", "None"},
     recursive : BOOLEAN, use_decorators : BOOLEAN]

NextBuild ==
    \/ \E w \in Decorated, v \in {"True", "False", "None"} : FilterModifier(w, v)
    \/ \E w \in Decorated : NameModifier(w)
    \/ \E w \in Decorated, v \in Retargets : DestinationModifier(w, v)
    \/ \E opts \in BuildOptions : Build(opts)

SpecBuild == InitBuild /\ [][NextBuild]_vars

(* ------------------- views of a create_patches call ------------------- *)

\* create_patches was called and returned its list.
BuildReturned == built.op = "build" /\ built.exc = "none"

\* The places in the returned list of the records whose obj is value v.
RecordsOf(v) == {i \in DOMAIN built.out : built.out[i].obj = v}

\* The traversal steps taken for the composite value v (v was descended).
StepsOf(v) == {i \in DOMAIN built.steps : built.steps[i].obj = v}

\* The candidate v led to something: a record, or a descent into it.
Kept(v) == RecordsOf(v) # {} \/ StepsOf(v) # {}

\* The classes whose declared members a traversal step over class c
\* enumerates, most-derived first.
Declaring(c, traverse_bases) ==
    IF traverse_bases THEN WithoutRoots(getmro(c)) ELSE <<c>>

DeclaredNames(c) == {world.decl[c][i][1] : i \in DOMAIN world.decl[c]}

\* The candidates (name, value) of a step over class c: for every name that
\* a class of the order declares, the value of the first class declaring it.
Candidates(c, traverse_bases) ==
    LET order == Declaring(c, traverse_bases)
        names == UNION {DeclaredNames(order[i]) : i \in DOMAIN order}
        first(n) == order[CHOOSE i \in DOMAIN order :
                             /\ n \in DeclaredNames(order[i])
                             /\ \A j \in 1..(i - 1) :
                                   n \notin DeclaredNames(order[j])]
    IN  {<<n, Declared(world.decl, first(n), n)>> : n \in names}

\* The decorator data registered for the definition behind value v: a
\* wrapper stands for the function it wraps.
Metadata(v) ==
    LET key == Ident(IF v.kind \in WrapperKinds THEN Function(v.of) ELSE v)
    IN  IF key \in DOMAIN world.data THEN world.data[key] ELSE None

\* The inclusion decision: a filter override of True or False decides when
\* decorator data are used; else the filter function does, where the
\* default filter rejects the names that begin with "_" and the modules.
Included(n, v) ==
    LET md == Metadata(v)
        forced == built.opts.use_decorators /\ md.exists
    IN  IF forced /\ md.filter = "True" THEN TRUE
        ELSE IF forced /\ md.filter = "False" THEN FALSE
        ELSE IF built.opts.filter = "None" THEN TRUE
        ELSE ~(startswith_underscore(n) \/ v.kind = "module")

\* C15: in a create_patches call that returns, a candidate member leads to
\* a record (or a descent) exactly when the inclusion decision keeps it: a
\* filter override of True keeps it and one of False drops it whatever the
\* filter says, when decorator data are used; otherwise the filter decides.
C15_InclusionDecision ==
    BuildReturned =>
        \A s \in DOMAIN built.steps :
           \A c \in Candidates(built.steps[s].obj.of, built.opts.traverse_bases) :
              Kept(c[2]) <=> Included(c[1], c[2])

C15_Witness ==
    /\ BuildReturned
    /\ built.opts.use_decorators
    /\ built.opts.filter = "default_filter"
    /\ Metadata(Function("f_bar")).filter = "True"
    /\ RecordsOf(Function("f_bar")) # {}
    /\ Metadata(Declared(world.decl, "Tmpl", "foo")).filter = "False"
    /\ RecordsOf(Declared(world.decl, "Tmpl", "foo")) = {}

\* The destination (or copy of it) that a destination override gives.
Copied(v) == deepcopy(v).val

\* The record generated for candidate (n, v) of a step whose destination is
\* dest, after the overrides of its decorator data have been applied.
Redirected(dest, n, v) ==
    LET md == Metadata(v)
        used == built.opts.use_decorators /\ md.exists
    IN  Patch(IF used /\ md.override.destination # Unset
              THEN Copied(md.override.destination) ELSE dest,
              IF used /\ md.override.name # "unset"
              THEN md.override.name ELSE n,
              v)

\* Object dest has a member called n that is a class.
HasComposite(dest, n) ==
    LET t == get_attribute(world.dict, dest.of, n)
    IN  t.ok /\ t.val.kind = "class"

\* What is asked of a kept candidate whose value is the class v, when the
\* member looked for is the one called asName on object onDest.
DescentRule(v, onDest, asName) ==
    IF built.opts.recursive /\ HasComposite(onDest, asName)
    THEN /\ RecordsOf(v) = {}
         /\ \E j \in StepsOf(v) :
               built.steps[j].destination
                 = get_attribute(world.dict, onDest.of, asName).val
    ELSE /\ StepsOf(v) = {}
         /\ \E i \in DOMAIN built.out : RecordsOf(v) = {i}

\* C16 (as claimed): a kept candidate whose value is a class is descended
\* into, with no record of its own, exactly when recursive is set and the
\* destination of the step has a member of the candidate's name that is a
\* class; otherwise it gets exactly one record.
C16_DescendsOnSameNamedComposite ==
    BuildReturned =>
        \A s \in DOMAIN built.steps :
           \A c \in Candidates(built.steps[s].obj.of, built.opts.traverse_bases) :
              (c[2].kind = "class" /\ Included(c[1], c[2]))
              => DescentRule(c[2], built.steps[s].destination, c[1])

\* C16 (amended): the member looked for is the one that the candidate's
\* record names after its overrides were applied: the record's name on the
\* record's destination.
C16_DescendsOnRedirectedComposite ==
    BuildReturned =>
        \A s \in DOMAIN built.steps :
           \A c \in Candidates(built.steps[s].obj.of, built.opts.traverse_bases) :
              (c[2].kind = "class" /\ Included(c[1], c[2]))
              => LET r == Redirected(built.steps[s].destination, c[1], c[2])
                 IN  /\ DescentRule(c[2], r.destination, r.name)
                     /\ \A i \in RecordsOf(c[2]) : built.out[i] = r

C16_Witness ==
    /\ BuildReturned
    /\ built.opts.recursive
    /\ built.opts.use_decorators
    /\ Metadata(Class("Inner")).override.name = "Other"
    /\ ~HasComposite(Class("Dest"), "Inner")
    /\ \E j \in StepsOf(Class("Inner")) :
          built.steps[j].destination = Class("DestOther")
    /\ \E i \in DOMAIN built.out :
          built.out[i] = Patch(Class("DestOther"), "a", Function("f_a"))

\* C17: with decorator data in use create_patches returns, and every record
\* of a candidate whose data carry overrides has the override's destination
\* itself (the same object) as its destination and the override's name as
\* its name; a field without an override keeps the generated value.
C17_OverridesReplaceFields ==
    (built.op = "build" /\ built.opts.use_decorators) =>
        /\ built.exc = "none"
        /\ \A s \in DOMAIN built.steps :
              \A c \in Candidates(built.steps[s].obj.of,
                                  built.opts.traverse_bases) :
                 \A i \in RecordsOf(c[2]) :
                    LET ov == Metadata(c[2]).override
                    IN  /\ built.out[i].destination
                             = IF ov.destination # Unset THEN ov.destination
                               ELSE built.steps[s].destination
                        /\ built.out[i].name
                             = IF ov.name # "unset" THEN ov.name ELSE c[1]

\* C19: in a create_patches call that returns, of the definitions that the
\* template and its ancestor give one member name at most one has a record,
\* and that is the most-derived one (the template's own where it declares
\* the name); a kept leaf candidate has exactly one.  With traverse_bases
\* off, only members the template itself declares have records.
C19_MostDerivedDefinitionWins ==
    BuildReturned =>
        \A n \in DeclaredNames("Tmpl") \cup DeclaredNames("TmplBase") :
           LET own == n \in DeclaredNames("Tmpl")
               defs == {Declared(world.decl, c, n) :
                           c \in {k \in {"Tmpl", "TmplBase"} :
                                     n \in DeclaredNames(k)}}
               best == Declared(world.decl,
                                IF own THEN "Tmpl" ELSE "TmplBase", n)
               recs == {i \in DOMAIN built.out : built.out[i].obj \in defs}
           IN  /\ Cardinality(recs) <= 1
               /\ \A i \in recs : built.out[i].obj = best
               /\ (~built.opts.traverse_bases /\ ~own) => recs = {}
               /\ ((built.opts.traverse_bases \/ own)
                     /\ Included(n, best) /\ best.kind # "class")
                  => Cardinality(recs) = 1

C19_Witness ==
    /\ BuildReturned
    /\ built.opts.traverse_bases
    /\ RecordsOf(Declared(world.decl, "Tmpl", "foo")) # {}
    /\ RecordsOf(Function("f_only")) # {}
    /\ RecordsOf(Function("f_foo_base")) = {}

\* The world w with the members of template class c declared in the order
\* p of the order they have in w.
Reordered(w, c, p) ==
    [w EXCEPT !.decl[c] = [i \in DOMAIN w.decl[c] |-> w.decl[c][p[i]]]]

\* The template class whose step generated the record of value v, and the
\* member name under which v is declared.
LevelOf(v) ==
    IF \E i \in DOMAIN world.decl["Inner"] : world.decl["Inner"][i][2] = v
    THEN "Inner" ELSE "Tmpl"

DeclaredAs(v) ==
    LET pairs == UNION {{world.decl[c][i] : i \in DOMAIN world.decl[c]} :
                           c \in DOMAIN world.decl}
    IN  (CHOOSE p \in pairs : p[2] = v)[1]

\* C20: create_patches returns the same list (or raises the same) when a
\* template class declares the same members in any other order; the records of one traversal
\* step stand in ascending order of their member names; and the records of
\* the nested class stand after every record of the level that holds it.
C20_DeterministicBreadthFirst ==
    built.op = "build" =>
        /\ \A c \in {"Tmpl", "Inner"} :
              \A p \in Permutations(DOMAIN world.decl[c]) :
                 LET r == create_patches(Reordered(world, c, p), Class("Dest"),
                                         Class("Tmpl"), built.opts)
                 IN  r.out = built.out /\ r.exc = built.exc
        /\ \A i \in DOMAIN built.out, j \in DOMAIN built.out :
              /\ (i < j /\ LevelOf(built.out[i].obj) = LevelOf(built.out[j].obj))
                 => NameRank(DeclaredAs(built.out[i].obj))
                      < NameRank(DeclaredAs(built.out[j].obj))
              /\ (LevelOf(built.out[i].obj) = "Tmpl"
                    /\ LevelOf(built.out[j].obj) = "Inner")
                 => i < j

C20_Witness ==
    /\ BuildReturned
    /\ Len(built.out) = 4
    /\ built.out[1].obj = Declared(world.decl, "Tmpl", "foo")
    /\ built.out[2].obj = Function("f_only")
    /\ built.out[3].obj = Function("f_a")
    /\ built.out[4].obj = Function("f_b")

(***************************************************************************)
(* The decorator data of one definition, registered and looked up through  *)
(* its wrapper forms.                                                      *)
(***************************************************************************)

\* The forms the modifiers are given and create_patches and find_patches
\* meet: foo and _bar in every form, and the nested class.
Wrapped == FormsOf("f_foo") \cup FormsOf("f_bar") \cup {Class("Inner")}

\* A modifier decorator applied to wrapped: field is the modifier called
\* (filter, name or destination) and value its argument.
Register(field, wrapped, value) ==
    /\ world.n < MaxModifiers
    /\ world' = [world EXCEPT
                    !.data = IF field = "filter"
                             THEN filter_modifier(@, value, wrapped)
                             ELSE IF field = "name"
                             THEN name_modifier(@, value, wrapped)
                             ELSE destination_modifier(@, value, wrapped),
                    !.n = @ + 1]
    /\ last' = [NoCall EXCEPT !.op = field, !.obj = wrapped, !.ret = value]
    /\ res' = NoResult
    /\ UNCHANGED <<dict, layers, run, patched, threads, built>>

\* base = _get_base(value); decorator_data = get_decorator_data(base), as
\* create_patches and find_patches do for a member value they meet.
Lookup(value) ==
    /\ res' = [op |-> "lookup", obj |-> value, name |-> "none",
               ret |-> get_decorator_data(world.data, _get_base(value))]
    /\ UNCHANGED <<dict, layers, last, run, patched, threads, world, built>>

NextRegister ==
    \/ \E w \in Wrapped :
          \/ \E v \in {"True", "False"} : Register("filter", w, v)
          \/ Register("name", w, "Other")
          \/ Register("destination", w, Class("Elsewhere"))
    \/ \E w \in Wrapped : Lookup(w)

\* The registry is empty; the destination has no member Inner.
InitRegister ==
    /\ InitBuild
    /\ world.dict = DestDict({})

SpecRegister == InitRegister /\ [][NextRegister]_vars

\* The field of decorator data d that the modifier called field sets.
FieldOf(d, field) ==
    IF field = "filter" THEN d.filter
    ELSE IF field = "name" THEN d.override.name
    ELSE d.override.destination

\* C18: the decorator data found for a value are the data of the definition
\* behind it, whichever form the value has: what the last modifier set
\* through one form of a definition is in the data found through any form
\* of that definition, and all forms of a definition find the same data.
C18_SameDataThroughEveryForm ==
    res.op = "lookup" =>
        /\ (last.op # "none" /\ last.obj.of = res.obj.of)
           => (res.ret.exists /\ FieldOf(res.ret, last.op) = last.ret)
        /\ \A w \in Wrapped :
              w.of = res.obj.of
              => get_decorator_data(world.data, _get_base(w)) = res.ret

C18_Witness ==
    /\ res.op = "lookup"
    /\ res.obj = Value("property", "f_foo")
    /\ last.op = "name"
    /\ last.obj = Value("method", "f_foo")
    /\ res.ret.override.name = "Other"

(* ------------------------------- C23 ---------------------------------- *)

\* C23: create_patches only returns its list and applies nothing: the
\* member tables of the destination, of the classes it holds and of every
\* other object (with the stacks of stored originals and the created flags
\* they would hold) and the member tables of the template are after the
\* call what they were before it.
C23_BuildAppliesNothing ==
    [][(built.op = "none" /\ built'.op = "build")
       => (world'.dict = world.dict /\ world'.decl = world.decl)]_vars

\* create_patches returned records for Dest and for the class Dest holds,
\* and no object holds an attribute that the call could have written.
C23_Witness ==
    /\ BuildReturned
    /\ Len(built.out) >= 3
    /\ \E i \in DOMAIN built.out :
          built.out[i].destination = Class("DestInner")
    /\ \E inner \in SUBSET {<<"Inner", Class("DestInner")>>} :
          world.dict = DestDict(inner)

(***************************************************************************)
(* find_patches.  A package tree: the root package pkg holds the modules   *)
(* pkg.alpha and pkg.beta and the package pkg.sub, which holds the module  *)
(* pkg.sub.leaf.  A module is the value ModuleObj(<dotted name>); its      *)
(* __dict__ once imported is world.decl[<dotted name>]; the decorator      *)
(* calls that its body makes when it is imported are world.source.         *)
(***************************************************************************)


\* base.__name__ of a function or class.
NameOf(base) == base.of

\* monkey.patch(destination, name)(wrapped): the registry afterwards.
patch_decorator(data, destination, name, wrapped) ==
    LET base == _get_base(wrapped)
        name_ == IF name = "None" THEN NameOf(base) ELSE name
        patch_obj == Patch(destination, name_, wrapped)
    IN  [set_default(data, base) EXCEPT
            ![Ident(base)].patches = Append(@, patch_obj)]

\* patches_list = create_patches(destination, wrapped, ...) of
\* monkey.patches(destination)(wrapped), every option at its default, for
\* a class whose body has run in the world w.
patches_list(w, destination, wrapped) ==
    create_patches(w, destination, wrapped,
                   [traverse_bases |-> TRUE, filter |-> "default_filter",
                    recursive |-> TRUE, use_decorators |-> TRUE]).out

\* monkey.patches(destination)(wrapped): the registry afterwards, given the
\* records that create_patches made.
patches_decorator(data, wrapped, created) ==
    LET base == _get_base(wrapped)
    IN  [set_default(data, base) EXCEPT ![Ident(base)].patches = @ \o created]

\* The body of a module runs: its decorator calls in turn, each of them
\* monkey.patch(Dest, name) or monkey.patches(Dest).  The records of a
\* monkey.patches call depend on the decorated class alone (its members
\* and their decorator data); the statement carries them as s.created.
RECURSIVE run_body(_, _)
run_body(w, stmts) ==
    IF stmts = <<>> THEN w
    ELSE LET s == Head(stmts)
         IN  run_body([w EXCEPT
                          !.data = IF s.decorator = "patch"
                                   THEN patch_decorator(@, Class("Dest"),
                                                        s.name, s.wrapped)
                                   ELSE patches_decorator(@, s.wrapped,
                                                          s.created)],
                      Tail(stmts))

\* sys.modules.get(module_name), and importlib.import_module(module_name)
\* when that is None: a module not imported yet is entered in sys.modules
\* and runs its body, which first imports the modules it needs (w.needs)
\* and then makes its decorator calls.
RECURSIVE import_all(_, _)
import_module(w, module_name) ==
    LET import(w_) ==
            IF module_name \in w_.imported THEN w_
            ELSE run_body(import_all([w_ EXCEPT
                                         !.imported = @ \cup {module_name}],
                                     w_.needs[module_name]),
                          w_.source[module_name])
    IN  Let(w, import)

\* import a, b, ...
import_all(w, module_names) ==
    IF module_names = <<>> THEN w
    ELSE import_all(import_module(w, Head(module_names)), Tail(module_names))

(* -------------------------- _module_iterator -------------------------- *)

\* What the generator does between two resumptions is a sequence of events:
\* a child is imported, a module is yielded.
Event(do, m) == [do |-> do, module |-> m]

\* for finder, name, is_package in pkgutil.iter_modules([path]): ...
\* names are the children of one package in the order they are listed; a
\* child is a package when the tree lists children for it.
RECURSIVE iter_modules_loop(_, _, _, _)
iter_modules_loop(tree, names, recursive, acc) ==
    IF names = <<>> THEN acc
    ELSE LET module_name == Head(names)
             is_package == module_name \in DOMAIN tree
             imported == [acc EXCEPT
                             !.events = Append(@, Event("import", module_name))]
             yielded == [imported EXCEPT
                            !.events = Append(@, Event("yield", module_name))]
         IN  iter_modules_loop(tree, Tail(names), recursive,
                 IF is_package
                 THEN IF recursive
                      THEN [yielded EXCEPT !.stack = Append(@, module_name)]
                      ELSE imported
                 ELSE yielded)

\* while stack: package = stack.popleft() ...
RECURSIVE _module_iterator_loop(_, _, _)
_module_iterator_loop(tree, recursive, acc) ==
    LET step(acc_) ==
            IF acc_.stack = <<>> THEN acc_.events
            ELSE LET package == Head(acc_.stack)
                     paths == IF package \in DOMAIN tree THEN tree[package]
                              ELSE <<>>
                 IN  _module_iterator_loop(tree, recursive,
                         iter_modules_loop(tree, paths, recursive,
                                           [acc_ EXCEPT !.stack = Tail(@)]))
    IN  Let(acc, step)

\* _module_iterator(root, recursive): the events of the generator, in order.
_module_iterator(tree, root, recursive) ==
    _module_iterator_loop(tree, recursive,
        [events |-> <<Event("yield", root)>>, stack |-> <<root>>])

(* ---------------------------- find_patches ---------------------------- *)

\* modules_iter: the generators of the given packages one after the other.
RECURSIVE modules_iter(_, _, _)
modules_iter(tree, modules, recursive) ==
    IF modules = <<>> THEN <<>>
    ELSE _module_iterator(tree, Head(modules), recursive)
         \o modules_iter(tree, Tail(modules), recursive)

\* extend with a plausible slip: the patches found are put in front.
extend_InFront(out, found) == found \o out

\* out.extend(decorator_data.patches)
extend(out, found) == out \o found

\* for _, value in members: ... ; acc.out is the list built so far and, as
\* history, acc.from[i] tells which yield (counted from 1) found out[i].
RECURSIVE find_members_loop(_, _, _)
find_members_loop(data, members, acc) ==
    IF members = <<>> THEN acc
    ELSE LET base == _get_base(Head(members)[2])
             decorator_data == get_decorator_data(data, base)
             found(acc_) ==
                 IF ~decorator_data.exists THEN acc_
                 ELSE [acc_ EXCEPT
                          !.out = extend(@, decorator_data.patches),
                          !.from = extend(@,
                              [i \in 1..Len(decorator_data.patches) |->
                                  Len(acc_.yielded)])]
         IN  find_members_loop(data, Tail(members), Let(acc, found))

\* for module in modules_iter: ...  The generator is resumed for each
\* module: the imports it makes before the next yield happen then.
RECURSIVE find_patches_loop(_, _)
find_patches_loop(events, acc) ==
    IF events = <<>> THEN acc
    ELSE LET e == Head(events)
             resume(acc_) ==
                 IF e.do = "import"
                 THEN [acc_ EXCEPT !.w = import_module(@, e.module)]
                 ELSE find_members_loop(acc_.w.data,
                          _get_members(acc_.w.decl, ModuleObj(e.module),
                                       TRUE, "None", TRUE),
                          [acc_ EXCEPT !.yielded = Append(@, e.module)])
         IN  find_patches_loop(Tail(events), Let(acc, resume))

\* find_patches(modules, recursive) in the world w: the list returned (out),
\* the world afterwards (w) and, as history, the modules yielded in turn
\* and the yield that found each element of out.
find_patches(w, modules, recursive) ==
    LET run_(events) ==
            find_patches_loop(events, [out |-> <<>>, w |-> w,
                                       yielded |-> <<>>, from |-> <<>>])
    IN  Let(modules_iter(w.tree, modules, recursive), run_)

(* ------------------------- the package tree --------------------------- *)

\* The functions that a module of the tree may decorate with monkey.patch:
\* f in pkg.alpha, n in the class Top of pkg.alpha, g in pkg.beta, s in
\* pkg.sub and l in pkg.sub.leaf.
Decorable == {"f", "n", "g", "s", "l"}

\* The module whose body defines (and decorates) the function.
DefinedIn(fn) ==
    IF fn \in {"f", "n"} THEN "pkg.alpha"
    ELSE IF fn = "g" THEN "pkg.beta"
    ELSE IF fn = "s" THEN "pkg.sub"
    ELSE "pkg.sub.leaf"

FindModules == {"pkg", "pkg.alpha", "pkg.beta", "pkg.sub", "pkg.sub.leaf"}

\* The package that holds a module ("none" for the root package).
Parent(m) ==
    IF m = "pkg" THEN "none"
    ELSE IF m = "pkg.sub.leaf" THEN "pkg.sub"
    ELSE "pkg"

\* The __dict__ of every module once imported, and of the class Top.  With
\* alias, pkg.beta has imported f from pkg.alpha under the name foo
\* (from pkg.alpha import foo).
PackageDecl(alias) ==
    [m \in FindModules \cup {"Top"} |->
        IF m = "pkg" THEN << <<"only", Function("r")>> >>
        ELSE IF m = "pkg.alpha"
        THEN << <<"helper", ModuleObj("monkey")>>,
                <<"foo", Function("f")>>,
                <<"Inner", Class("Top")>> >>
        ELSE IF m = "Top" THEN << <<"a", Function("n")>> >>
        ELSE IF m = "pkg.beta"
        THEN << <<"b", Function("g")>> >>
             \o (IF alias THEN << <<"foo", Function("f")>> >> ELSE <<>>)
        ELSE IF m = "pkg.sub" THEN << <<"only", Function("s")>> >>
        ELSE << <<"a", Function("l")>> >>]

\* The decorator calls of one function's definition: none, @patch(Dest), or
\* @patch(Dest, name='Other') under @patch(Dest) (the lower one runs first).
Statements(fn, count) ==
    IF count = 0 THEN <<>>
    ELSE IF count = 1
    THEN << [decorator |-> "patch", wrapped |-> Function(fn), name |-> "None",
             created |-> <<>>] >>
    ELSE << [decorator |-> "patch", wrapped |-> Function(fn), name |-> "Other",
             created |-> <<>>],
            [decorator |-> "patch", wrapped |-> Function(fn), name |-> "None",
             created |-> <<>>] >>

\* The decorator calls of every module's body, given how many decorators
\* each function carries.
PackageSource(counts) ==
    [m \in FindModules |->
        IF m = "pkg.alpha"
        THEN Statements("f", counts["f"]) \o Statements("n", counts["n"])
        ELSE IF m = "pkg.beta" THEN Statements("g", counts["g"])
        ELSE IF m = "pkg.sub" THEN Statements("s", counts["s"])
        ELSE IF m = "pkg.sub.leaf" THEN Statements("l", counts["l"])
        ELSE <<>>]

\* The orders in which the children of pkg may be listed.
ChildOrders ==
    { <<"pkg.alpha", "pkg.beta", "pkg.sub">>,
      <<"pkg.sub", "pkg.beta", "pkg.alpha">> }

InitFind ==
    /\ \E alias \in BOOLEAN, order \in ChildOrders,
          counts \in [Decorable -> 0..1] \cup
                     {[fn \in Decorable |-> IF fn = "f" THEN 2 ELSE 0],
                      [fn \in Decorable |-> IF fn \in {"f", "g"} THEN 2 ELSE 1]} :
          world = [decl |-> PackageDecl(alias),
                   dict |-> DestDict({}),
                   data |-> [k \in {Ident(Function(fn)) :
                                       fn \in Decorable \cup {"r"}}
                                   \cup {Ident(Class("Top"))} |-> None],
                   n |-> 0,
                   tree |-> [p \in {"pkg", "pkg.sub"} |->
                               IF p = "pkg" THEN order
                               ELSE <<"pkg.sub.leaf">>],
                   source |-> PackageSource(counts),
                   needs |-> [m \in FindModules |->
                                IF m = "pkg.beta" /\ alias
                                THEN <<"pkg.alpha">> ELSE <<>>],
                   imported |-> {"pkg"}]
    /\ built = NoBuild
    /\ dict = [o \in Objs |-> EmptyDict]
    /\ layers = [o \in Objs |-> <<>>]
    /\ last = NoCall
    /\ run = NoRun
    /\ patched = "Base"
    /\ res = NoResult
    /\ threads = NoThreads

\* import <module_name>, by anyone, once the package that holds it is imported.
ImportModule(module_name) ==
    /\ built.op = "none"
    /\ module_name \notin world.imported
    /\ Parent(module_name) \in world.imported
    /\ \E w \in {import_module(world, module_name)} : world' = w
    /\ UNCHANGED <<dict, layers, last, run, patched, res, threads, built>>

\* monkey.find_patches(modules, recursive), the modules given being imported.
Find(modules, recursive) ==
    /\ built.op = "none"
    /\ \A i \in DOMAIN modules : modules[i] \in world.imported
    /\ \E r \in {find_patches(world, modules, recursive)} :
          /\ built' = [op |-> "find",
                       opts |-> [modules |-> modules, recursive |-> recursive],
                       out |-> r.out, exc |-> "none", steps |-> r.yielded,
                       from |-> r.from]
          /\ world' = r.w
    /\ UNCHANGED <<dict, layers, last, run, patched, res, threads>>

\* The lists of modules given to find_patches.
FindRoots == { <<"pkg">>, <<"pkg.sub">>, <<"pkg.alpha", "pkg">> }

NextFind ==
    \/ \E m \in FindModules : ImportModule(m)
    \/ \E modules \in FindRoots, recursive \in BOOLEAN : Find(modules, recursive)

SpecFind == InitFind /\ [][NextFind]_vars

(* --------------------- views of a find_patches call ------------------- *)

\* find_patches was called and returned its list.
FindReturned == built.op = "find"

\* The patches that the source declares on function fn, in the order its
\* decorators run.
DeclaredOn(fn) ==
    LET OnFn(s) == s.wrapped = Function(fn)
        stmts == SelectSeq(world.source[DefinedIn(fn)], OnFn)
    IN  [i \in 1..Len(stmts) |->
            Patch(Class("Dest"),
                  IF stmts[i].name = "None" THEN fn ELSE stmts[i].name,
                  stmts[i].wrapped)]

\* The values that module m holds as its own (top-level) members.
TopLevel(m) == {world.decl[m][i][2] : i \in DOMAIN world.decl[m]}

\* The values that are members of a class that module m holds.
Nested(m) ==
    UNION {{world.decl[c.of][i][2] : i \in DOMAIN world.decl[c.of]} :
              c \in {v \in TopLevel(m) : v.kind = "class"}}

\* The elements of the returned list from position i on that the k-th yield
\* found and that are patches of the object v, in the order of the list.
RECURSIVE FoundOf(_, _, _)
FoundOf(k, v, i) ==
    IF i > Len(built.out) THEN <<>>
    ELSE (IF built.from[i] = k /\ built.out[i].obj = v
          THEN <<built.out[i]>> ELSE <<>>) \o FoundOf(k, v, i + 1)

\* Only pkg.alpha and pkg.beta declare a patch, one each, and neither
\* holds a definition of the other.
TwoChildrenOnePatchEach ==
    /\ \A fn \in Decorable :
          Len(DeclaredOn(fn)) = (IF fn \in {"f", "g"} THEN 1 ELSE 0)
    /\ Function("f") \notin TopLevel("pkg.beta")

\* The position of module m among the children of pkg as they are listed.
ListedAt(m) ==
    CHOOSE i \in DOMAIN world.tree["pkg"] : world.tree["pkg"][i] = m

\* C21: find_patches returns the patches declared in the yielded modules in
\* module-then-member encounter order: what an earlier yield found precedes
\* what a later yield found; every element is a patch declared on a member
\* of the module of its yield; for each decorated top-level member of a
\* yielded module the patches of its metadata appear in declaration order.
\* For the root package whose two child modules declare one patch each the
\* result is exactly those two patches, in the order the children are listed.
C21_FindInEncounterOrder ==
    FindReturned =>
        /\ \A i, j \in DOMAIN built.out :
              i < j => built.from[i] <= built.from[j]
        /\ \A i \in DOMAIN built.out :
              /\ built.out[i].obj \in TopLevel(built.steps[built.from[i]])
                                      \cup Nested(built.steps[built.from[i]])
              /\ \E k \in DOMAIN DeclaredOn(built.out[i].obj.of) :
                    DeclaredOn(built.out[i].obj.of)[k] = built.out[i]
        /\ \A k \in DOMAIN built.steps, fn \in Decorable :
              Function(fn) \in TopLevel(built.steps[k])
              => FoundOf(k, Function(fn), 1) = DeclaredOn(fn)
        /\ (built.opts.modules = <<"pkg">> /\ TwoChildrenOnePatchEach)
           => built.out =
                IF ListedAt("pkg.alpha") < ListedAt("pkg.beta")
                THEN DeclaredOn("f") \o DeclaredOn("g")
                ELSE DeclaredOn("g") \o DeclaredOn("f")

\* find_patches on the root package returned patches of three yields, one of
\* them the two patches of f in declaration order.
C21_Witness ==
    /\ FindReturned
    /\ built.opts.modules = <<"pkg">>
    /\ Cardinality({built.from[i] : i \in DOMAIN built.from}) >= 3
    /\ Len(DeclaredOn("f")) = 2
    /\ \E i \in DOMAIN built.out :
          /\ i < Len(built.out)
          /\ <<built.out[i], built.out[i + 1]>> = DeclaredOn("f")

\* C22: find_patches yields the root and then every direct child of the
\* root, module or package, whatever the recursive flag; with recursive off
\* the patches that a direct child package declares itself are returned.
C22_DirectChildPackageYielded ==
    (FindReturned /\ built.opts.modules = <<"pkg">>)
    => /\ \A i \in DOMAIN world.tree["pkg"] :
             \E k \in DOMAIN built.steps :
                built.steps[k] = world.tree["pkg"][i]
       /\ \A p \in DOMAIN DeclaredOn("s") :
             \E i \in DOMAIN built.out : built.out[i] = DeclaredOn("s")[p]

\* C27: find_patches considers the top-level members of each yielded module
\* only: no element of the result is a patch of a definition that is a
\* member of a class of the module and not a top-level member of it.
C27_TopLevelMembersOnly ==
    FindReturned =>
        \A i \in DOMAIN built.out :
            built.out[i].obj \in TopLevel(built.steps[built.from[i]])

(***************************************************************************)
(* Patch records on one slot.  The record with replacement v is            *)
(* Patch(patched, Member, v); the member as the destination defines it     *)
(* before any patch is the value Original.  In these specifications `run`  *)
(* holds, as history, the lifecycle of every record (declared, applied,    *)
(* reverted) and `res` the invocation of the member in progress.           *)
(***************************************************************************)

\* The depth of calls at which Python gives up with RecursionError.
MaxCalls == 3

\* The value of the member before any patch; it is no record's replacement.
Original == 0

\* No invocation of the member is in progress.
NoInvocation == [op |-> "none", obj |-> Original, caller |-> Original, depth |-> 0]

InitRecords ==
    /\ dict \in [Objs -> {EmptyDict, [k \in {Member} |-> Original]}]
    /\ layers = [o \in Objs |-> <<>>]
    /\ last = NoCall
    /\ run = [v \in Values |-> "declared"]
    /\ patched \in Objs
    /\ res = NoInvocation
    /\ threads = NoThreads
    /\ world = NoWorld
    /\ built = NoBuild

\* monkey.apply(R, id) for the record R with replacement v, which is not
\* applied at present (a first apply, or a fresh one after its revert).
ApplyRecord(v, id) ==
    /\ Len(StackIds(dict, patched)) < MaxDepth
    /\ run[v] # "applied"
    /\ res.op # "running"
    /\ dict' = apply(dict, Patch(patched, Member, v), id)
    /\ run' = [run EXCEPT ![v] = "applied"]
    /\ last' = [NoCall EXCEPT !.op = "apply", !.dest = patched, !.obj = v,
                              !.id = id]
    /\ UNCHANGED <<layers, patched, res, threads, world, built>>

\* monkey.revert(R) for the applied record R with replacement v.
RevertRecord(v) ==
    /\ run[v] = "applied"
    /\ LET r == revert(dict, Patch(patched, Member, v))
       IN  /\ dict' = r.dict
           /\ run' = IF r.exc = "none" THEN [run EXCEPT ![v] = "reverted"]
                     ELSE run
           /\ last' = [NoCall EXCEPT !.op = "revert", !.dest = patched,
                                     !.obj = v, !.exc = r.exc]
    /\ UNCHANGED <<layers, patched, res, threads, world, built>>

NextRecords ==
    \/ \E v \in Values, id \in Ids : ApplyRecord(v, id)
    \/ \E v \in Values : RevertRecord(v)

SpecRecords == InitRecords /\ [][NextRecords]_vars

\* C24: a record moves declared -> applied -> reverted only: once revert(R)
\* has returned, R's replacement is not the current value of the slot until
\* R is applied afresh, in whatever order the records applied to the slot
\* are reverted.
C24_RevertedRecordNotCurrent ==
    \A v \in Values : run[v] = "reverted" => Cur(patched) # Found(v)

(* ----------------------- calling the patched member ------------------- *)

\* The member is called: the function that is its current value runs.
Invoke ==
    /\ res.op # "running"
    /\ Cur(patched).ok
    /\ res' = [op |-> "running", obj |-> Cur(patched).val,
               caller |-> Original, depth |-> 1]
    /\ UNCHANGED <<dict, layers, last, run, patched, threads, world, built>>

\* The replacement that runs calls call_original(cls, name, self, ...):
\* original = monkey.get_original_attribute(cls, name), with the default
\* id, and original(self, ...) runs next.  A failed lookup raises
\* AttributeError; a call deeper than MaxCalls raises RecursionError.
call_original(d, cls, depth) ==
    LET original == get_original_attribute(d, cls, Member, "default")
    IN  IF ~original.ok THEN [op |-> "AttributeError", obj |-> Original]
        ELSE IF depth >= MaxCalls
        THEN [op |-> "RecursionError", obj |-> original.val]
        ELSE [op |-> "running", obj |-> original.val]

CallOriginal ==
    /\ res.op = "running"
    /\ res.obj \in Values
    /\ LET r == call_original(dict, patched, res.depth)
       IN  res' = [op |-> r.op, obj |-> r.obj, caller |-> res.obj,
                   depth |-> res.depth + 1]
    /\ UNCHANGED <<dict, layers, last, run, patched, threads, world, built>>

\* The function that runs is the member as it was before any patch: it
\* returns, and so does every replacement that called through to it.
ReturnOriginal ==
    /\ res.op = "running"
    /\ res.obj = Original
    /\ res' = [res EXCEPT !.op = "returned"]
    /\ UNCHANGED <<dict, layers, last, run, patched, threads, world, built>>

NextCallThrough ==
    \/ \E v \in Values, id \in Ids : ApplyRecord(v, id)
    \/ Invoke
    \/ CallOriginal
    \/ ReturnOriginal

SpecCallThrough == InitRecords /\ [][NextCallThrough]_vars

\* The values layered on the slot, lowest first: the stored originals in
\* the order they were pushed, then the current value.
Chain(d, o) ==
    [i \in 1..Len(StackIds(d, o)) |->
        getattr(d, o, _ORIGINAL_ITEM(Member, i - 1)).val]
    \o <<get_attribute(d, o, Member).val>>

\* The height of value x in the chain (the lowest is 1).
Height(d, o, x) ==
    CHOOSE i \in DOMAIN Chain(d, o) : Chain(d, o)[i] = x

\* Two or more records are applied on the slot over the member's original
\* value, all with the default id.
SameTagLayers ==
    /\ Cardinality({v \in Values : run[v] = "applied"}) >= 2
    /\ Len(StackIds(dict, patched)) >= 2
    /\ \A i \in DOMAIN StackIds(dict, patched) :
          StackIds(dict, patched)[i] = "default"
    /\ Chain(dict, patched)[1] = Original

\* C29: with two or more patches applied to one slot with the same tag,
\* each calling through with that tag, a call of the patched member reaches
\* the pre-patch original: the call-through of every layer obtains a value
\* strictly below that layer, and the call ends in no error.
C29_CallThroughReachesOriginal ==
    SameTagLayers =>
        /\ (res.op = "running" /\ res.caller \in Values)
           => Height(dict, patched, res.obj) < Height(dict, patched, res.caller)
        /\ res.op \notin {"RecursionError", "AttributeError"}

(***************************************************************************)
(* The motor database of the tmc_autotune plugin                           *)
(* (src/patches/tmc_autotune.py): _load_motor_database and its module-wide  *)
(* cache _DB_CACHE.  world.files is the file system: for each path, no     *)
(* file, a file that cannot be opened, or a file with its lines.  A line   *)
(* is a section header or a `key: value` line.                             *)
(***************************************************************************)

Section(sect) == [kind |-> "section", text |-> sect]

KeyValue(key, val) == [kind |-> "key", key |-> key, val |-> val]

\* What a path holds: nothing ("absent"), something that exists and that
\* open() fails on ("unreadable"), or a text file ("file").
File(state, lines) == [state |-> state, lines |-> lines]

\* A table with no entry ({} in the code).
EmptyTable == [k \in {} |-> 0]

\* _DB_CACHE = None, and a table stored in it.
NoTable == [set |-> FALSE, table |-> EmptyTable]

Cached(table) == [set |-> TRUE, table |-> table]

\* The test that guards the cache, with a plausible slip: `if _DB_CACHE:`,
\* which an empty table fails.
is_not_None_Truthy(cache) == cache.set /\ cache.table # EmptyTable

\* _DB_CACHE is not None
is_not_None(cache) == cache.set

\* sect.lower().startswith("motor_constants "), for the headers of the model.
is_motor_constants(sect) == sect \in {"motor_constants m1", "Motor_Constants m2"}

\* sect.split(" ", 1)[1].strip()
motor_name(sect) == IF sect = "motor_constants m1" THEN "m1" ELSE "m2"

\* float(val), in tenths: the values of the model that parse.
Floats == [k \in {"2", "0.5"} |-> IF k = "2" THEN 20 ELSE 5]

\* The field a key is stored under; keys not listed are skipped.
FieldOfKey ==
    [k \in {"resistance", "inductance", "holding_torque", "max_current"} |->
        IF k = "resistance" THEN "R"
        ELSE IF k = "inductance" THEN "L"
        ELSE IF k = "holding_torque" THEN "T"
        ELSE "I"]

\* d[k] = v for a dict d.
put(d, k, v) == [x \in DOMAIN d \cup {k} |-> IF x = k THEN v ELSE d[x]]

\* for raw in fh: ...   cur is the name of the entry being filled ("" for
\* None); db[cur] is that entry.
RECURSIVE parse_lines(_, _, _)
parse_lines(lines, db, cur) ==
    IF lines = <<>> THEN db
    ELSE LET line == Head(lines)
         IN  IF line.kind = "section"
             THEN IF is_motor_constants(line.text)
                  THEN parse_lines(Tail(lines),
                           put(db, motor_name(line.text),
                               put(EmptyTable, "name", motor_name(line.text))),
                           motor_name(line.text))
                  ELSE parse_lines(Tail(lines), db, "")
             ELSE IF cur = "" THEN parse_lines(Tail(lines), db, cur)
             ELSE IF line.key \in DOMAIN FieldOfKey
                     /\ line.val \in DOMAIN Floats
             THEN parse_lines(Tail(lines),
                      put(db, cur, put(db[cur], FieldOfKey[line.key],
                                       Floats[line.val])),
                      cur)
             ELSE parse_lines(Tail(lines), db, cur)

\* _load_motor_database(path) with the cache and the file system given: the
\* cache afterwards, the table returned, the exception raised ("none" when
\* the call returns) and whether the call went to the file system.
_load_motor_database(cache, files, path) ==
    IF is_not_None(cache)
    THEN [cache |-> cache, ret |-> cache.table, exc |-> "none",
          read |-> FALSE]
    ELSE IF files[path].state = "absent"
    THEN [cache |-> Cached(EmptyTable), ret |-> EmptyTable, exc |-> "none",
          read |-> TRUE]
    ELSE IF files[path].state = "unreadable"
    THEN [cache |-> cache, ret |-> EmptyTable, exc |-> "OSError",
          read |-> TRUE]
    ELSE LET db == parse_lines(files[path].lines, EmptyTable, "")
         IN  [cache |-> Cached(db), ret |-> db, exc |-> "none", read |-> TRUE]

\* The paths a database is asked for.
MotorPaths == {"motor_database.cfg", "other.cfg"}

\* What a path may hold.
FileStates ==
    {File("absent", <<>>), File("unreadable", <<>>),
     File("file", <<>>),
     File("file", << Section("motor_constants m1"), KeyValue("resistance", "2"),
                     KeyValue("inductance", "x"), KeyValue("steps", "2") >>),
     File("file", << KeyValue("resistance", "2"),
                     Section("Motor_Constants m2"),
                     KeyValue("max_current", "0.5"), Section("stepper_x"),
                     KeyValue("resistance", "2") >>)}

\* No call of _load_motor_database was made.
NoLoad == [op |-> "none", path |-> "none", ret |-> EmptyTable, exc |-> "none",
           read |-> FALSE, later |-> FALSE]

InitMotor ==
    /\ world = [cache |-> NoTable,
                files |-> [p \in MotorPaths |-> File("absent", <<>>)],
                returned |-> FALSE, first |-> EmptyTable]
    /\ res = NoLoad
    /\ dict = [o \in Objs |-> EmptyDict]
    /\ layers = [o \in Objs |-> <<>>]
    /\ last = NoCall
    /\ run = NoRun
    /\ patched = "Base"
    /\ threads = NoThreads
    /\ built = NoBuild

\* The file system changes under the process: a file is written, removed
\* or made unreadable.
SetFile(path, state) ==
    /\ world.files[path] # state
    /\ world' = [world EXCEPT !.files[path] = state]
    /\ UNCHANGED <<dict, layers, last, run, patched, res, threads, built>>

\* db = _load_motor_database(path).  As history, world.returned tells
\* whether a call has returned and world.first the table the first such
\* call returned; res.later tells whether a call had returned before.
LoadMotorDatabase(path) ==
    LET r == _load_motor_database(world.cache, world.files, path)
    IN  /\ world' = [world EXCEPT
                        !.cache = r.cache,
                        !.returned = @ \/ r.exc = "none",
                        !.first = IF ~world.returned /\ r.exc = "none"
                                  THEN r.ret ELSE @]
        /\ res' = [op |-> "load", path |-> path, ret |-> r.ret,
                   exc |-> r.exc, read |-> r.read, later |-> world.returned]
        /\ UNCHANGED <<dict, layers, last, run, patched, threads, built>>

NextMotor ==
    \/ \E p \in MotorPaths, s \in FileStates : SetFile(p, s)
    \/ \E p \in MotorPaths : LoadMotorDatabase(p)

SpecMotor == InitMotor /\ [][NextMotor]_vars

KAPUCHIN_MANAGER_NAME == "kapuchin_manager"

\* The plugin modules, by the file patches/<name>.py that holds them.
PluginModules == {"patches.p1", "patches.p2"}

\* What load_config of a plugin module does: "None" when the module has no
\* load_config; "bootstrap" for
\* bootstrap_plugin(__import__(__name__), config); "own" when it returns an
\* object of its own and applies nothing; "config.error" and "Exception"
\* when it raises an error of that kind.
PluginKinds == {"None", "bootstrap", "own", "config.error", "Exception"}

\* The names of the [patch ...] sections met: two for the plugin modules,
\* one for a module that has no file, one with no module name at all.
PatchSections == {"patch p1", "patch p2", "patch gone", "patch "}

\* section_name.split()
split(section_name) ==
    IF section_name = "patch p1" THEN <<"patch", "p1">>
    ELSE IF section_name = "patch p2" THEN <<"patch", "p2">>
    ELSE IF section_name = "patch gone" THEN <<"patch", "gone">>
    ELSE <<"patch">>

\* An exception: its class and its message.
Raise(type, text) == [type |-> type, text |-> text]

\* No exception: the call returned.
NoError == Raise("none", "")

\* __import__(name): the top-level package of a dotted module name.
import_top(module_name) == "patches"

\* for patch in patches: monkey.apply(patch)
RECURSIVE apply_all(_, _)
apply_all(d, found) ==
    IF found = <<>> THEN d
    ELSE LET patch == [Head(found) EXCEPT !.destination = @.of]
         IN  apply_all(apply(d, patch, "default"), Tail(found))

\* bootstrap_plugin(module, config), no hooks: the world afterwards.
bootstrap_plugin(w, module) ==
    LET apply_found(r) == [r.w EXCEPT !.dict = apply_all(@, r.out)]
    IN  Let(find_patches(w, <<module>>, TRUE), apply_found)

\* plugin_obj = init_func(config), or bootstrap_plugin(mod, config) when the
\* module has no load_config: the world afterwards and the exception raised.
init_func(w, mod) ==
    LET call(w_) ==
            LET kind == w_.plugin[mod]
            IN  IF kind = "None"
                THEN [w |-> bootstrap_plugin(w_, mod), exc |-> NoError]
                ELSE IF kind = "bootstrap"
                THEN [w |-> bootstrap_plugin(w_, import_top(mod)),
                      exc |-> NoError]
                ELSE IF kind = "own" THEN [w |-> w_, exc |-> NoError]
                ELSE [w |-> w_, exc |-> Raise(kind, "raised by " \o mod)]
    IN  Let(w, call)

\* self._load_plugin(section_config)
_load_plugin(w, section_name) ==
    LET module_parts == split(section_name)
    IN  IF Len(module_parts) < 2
        THEN [w |-> w,
              exc |-> Raise("config.error",
                            "Invalid patch section name: '" \o section_name
                            \o "'")]
        ELSE LET module_name == module_parts[2]
                 mod == "patches." \o module_name
             IN  IF mod \notin PluginModules
                 THEN [w |-> w,
                       exc |-> Raise("config.error",
                                     "Unable to load patch module '"
                                     \o module_name \o "'")]
                 ELSE LET add_object(r) ==
                              IF r.exc # NoError THEN r
                              ELSE [w |-> [r.w EXCEPT
                                              !.objects =
                                                  Append(@, section_name)],
                                    exc |-> NoError]
                      IN  Let(init_func(import_all(w, <<"patches", mod>>), mod),
                              add_object)

\* The except clauses with a plausible slip: the exception is raised again
\* as it is, whatever its class.
raised_AsItIs(e, section_name) == e

\* except config.error: raise
\* except Exception as e: raise config.error("Unhandled error in patch ...")
raised(e, section_name) ==
    IF e.type = "config.error" THEN e
    ELSE Raise("config.error",
               "Unhandled error in patch '" \o section_name \o "': " \o e.text)

\* for section_config in patch_sections: ...   acc.attempted and acc.logged
\* are history: the sections given to _load_plugin and the sections named
\* in a logging.exception call.
RECURSIVE load_sections(_, _)
load_sections(patch_sections, acc) ==
    IF patch_sections = <<>> THEN acc
    ELSE LET section_name == Head(patch_sections)
             handle(r) ==
                 LET tried == [acc EXCEPT !.w = r.w,
                                          !.attempted = Append(@, section_name)]
                 IN  IF r.exc = NoError
                     THEN load_sections(Tail(patch_sections), tried)
                     ELSE [tried EXCEPT !.exc = raised(r.exc, section_name),
                                        !.logged = Append(@, section_name)]
         IN  Let(_load_plugin(acc.w, section_name), handle)

\* load_plugins with a plausible slip: patches_loaded is not consulted.
load_plugins_EveryTime(w) ==
    load_sections(w.sections,
                  [w |-> [w EXCEPT !.manager.patches_loaded = TRUE],
                   exc |-> NoError, attempted |-> <<>>, logged |-> <<>>])

\* manager.load_plugins(config)
load_plugins(w) ==
    IF w.manager.patches_loaded
    THEN [w |-> w, exc |-> NoError, attempted |-> <<>>, logged |-> <<>>]
    ELSE load_sections(w.sections,
                       [w |-> [w EXCEPT !.manager.patches_loaded = TRUE],
                        exc |-> NoError, attempted |-> <<>>, logged |-> <<>>])

\* The package `patches`: its modules as they are listed, the __dict__ of
\* each module and of the class it declares, and the decorator call of each
\* module body.
PluginDecl ==
    [m \in {"patches", "K1", "K2"} \cup PluginModules |->
        IF m = "patches.p1"
        THEN << <<"helper", ModuleObj("monkey")>>, <<"Inner", Class("K1")>> >>
        ELSE IF m = "patches.p2"
        THEN << <<"helper", ModuleObj("monkey")>>, <<"Inner", Class("K2")>> >>
        ELSE IF m = "K1" THEN << <<"foo", Function("k1_foo")>> >>
        ELSE IF m = "K2" THEN << <<"foo", Function("k2_foo")>> >>
        ELSE <<>>]

\* The classes K1 and K2 once their bodies have run: no member carries
\* decorator data.
PluginClasses ==
    [decl |-> PluginDecl, dict |-> DestDict({}),
     data |-> [k \in {Ident(Class("K1")), Ident(Class("K2"))} |-> None]]

PluginSource ==
    [m \in {"patches"} \cup PluginModules |->
        IF m \in PluginModules
        THEN LET wrapped == Class(IF m = "patches.p1" THEN "K1" ELSE "K2")
             IN  << [decorator |-> "patches", wrapped |-> wrapped,
                     name |-> "None",
                     created |-> patches_list(PluginClasses, Class("Dest"),
                                              wrapped)] >>
        ELSE <<>>]

\* The sequences of distinct sections of length up to two.
SectionLists ==
    {<<>>} \cup {<<a>> : a \in PatchSections}
    \cup {s \in PatchSections \X PatchSections : s[1] # s[2]}

\* check_unused_options has not been called.
NoCheck == [op |-> "none", exc |-> NoError, attempted |-> <<>>,
            logged |-> <<>>, skipped |-> FALSE, validated |-> FALSE]

InitLoad ==
    /\ \E sections \in SectionLists, plugin \in [PluginModules -> PluginKinds] :
          world = [decl |-> PluginDecl,
                   dict |-> PluginClasses.dict,
                   data |-> PluginClasses.data,
                   n |-> 0,
                   tree |-> [p \in {"patches"} |->
                               <<"patches.p1", "patches.p2">>],
                   source |-> PluginSource,
                   needs |-> [m \in {"patches"} \cup PluginModules |-> <<>>],
                   imported |-> {},
                   plugin |-> plugin,
                   sections |-> sections,
                   manager |-> [exists |-> FALSE, patches_loaded |-> FALSE],
                   objects |-> <<>>]
    /\ res = NoCheck
    /\ built = NoBuild
    /\ dict = [o \in Objs |-> EmptyDict]
    /\ layers = [o \in Objs |-> <<>>]
    /\ last = NoCall
    /\ run = NoRun
    /\ patched = "Base"
    /\ threads = NoThreads

\* The patched PrinterConfig.check_unused_options(config): the manager is
\* looked up, or created and registered; its load_plugins runs; then the
\* original validator, unless load_plugins raised.
CheckUnusedOptions ==
    LET w == IF world.manager.exists THEN world
             ELSE [world EXCEPT
                      !.manager = [exists |-> TRUE, patches_loaded |-> FALSE],
                      !.objects = Append(@, KAPUCHIN_MANAGER_NAME)]
    IN  \E r \in {load_plugins(w)} :
           /\ world' = r.w
           /\ res' = [op |-> "check_unused_options", exc |-> r.exc,
                      attempted |-> r.attempted, logged |-> r.logged,
                      skipped |-> w.manager.patches_loaded,
                      validated |-> r.exc = NoError]
           /\ UNCHANGED <<dict, layers, last, run, patched, threads, built>>

NextLoad == CheckUnusedOptions

SpecLoad == InitLoad /\ [][NextLoad]_vars

(* ------------------------ views of a load sequence -------------------- *)

\* The module a section names, "none" when it names no module.
ModuleOf(section_name) ==
    IF Len(split(section_name)) < 2 THEN "none"
    ELSE "patches." \o split(section_name)[2]

\* Loading the section fails: it names no module, or a module that has no
\* file, or the module's load_config raises.
FailsToLoad(section_name) ==
    \/ ModuleOf(section_name) \notin PluginModules
    \/ world.plugin[ModuleOf(section_name)] \in {"config.error", "Exception"}

\* The sections registered with the printer, in the order of registration.
Registered ==
    LET IsSection(name) == name # KAPUCHIN_MANAGER_NAME
    IN  SelectSeq(world.objects, IsSection)

\* The last call of the hook ran the load sequence.
Loaded == res.op = "check_unused_options" /\ ~res.skipped

\* C25: when loading a [patch ...] section fails, the failure is logged and
\* raised to the caller of load_plugins as a configuration error (the
\* configuration error itself when it is one, else a configuration error
\* whose message names the section), and no later section is loaded; with
\* no failing section every section is loaded and nothing is raised.
C25_LoadFailsFast ==
    Loaded =>
        LET failing == {i \in DOMAIN world.sections :
                           FailsToLoad(world.sections[i])}
        IN  IF failing = {}
            THEN /\ res.exc = NoError
                 /\ res.attempted = world.sections
                 /\ Registered = world.sections
                 /\ res.logged = <<>>
            ELSE LET k == CHOOSE i \in failing : \A j \in failing : i <= j
                     section_name == world.sections[k]
                     own == ModuleOf(section_name) \in PluginModules
                 IN  /\ res.exc.type = "config.error"
                     /\ res.attempted = SubSeq(world.sections, 1, k)
                     /\ Registered = SubSeq(world.sections, 1, k - 1)
                     /\ res.logged = <<section_name>>
                     /\ ~res.validated
                     /\ IF own /\ world.plugin[ModuleOf(section_name)]
                                     = "Exception"
                        THEN res.exc.text =
                               "Unhandled error in patch '" \o section_name
                               \o "': raised by " \o ModuleOf(section_name)
                        ELSE IF own
                        THEN res.exc.text = "raised by " \o ModuleOf(section_name)
                        ELSE TRUE

\* The first of two sections was loaded and registered, the second raised
\* an error that is no configuration error; the hook raised a
\* configuration error.
C25_Witness ==
    /\ Loaded
    /\ Len(world.sections) = 2
    /\ Registered = <<world.sections[1]>>
    /\ ModuleOf(world.sections[2]) \in PluginModules
    /\ world.plugin[ModuleOf(world.sections[2])] = "Exception"
    /\ res.exc.type = "config.error"

\* C26: load_plugins processes the [patch ...] sections at most once per
\* manager: a call of the patched hook on a manager whose load_plugins ran
\* before returns without importing, initialising or registering anything.
C26_LoadsAtMostOnce ==
    [][(world.manager.exists /\ world.manager.patches_loaded)
       => /\ world' = world
          /\ res'.attempted = <<>>
          /\ res'.exc = NoError]_vars

\* The hook ran a second time on a configuration with a section that loads:
\* the section is registered once.
C26_Witness ==
    /\ res.op = "check_unused_options" /\ res.skipped
    /\ Len(Registered) >= 1
    /\ world.imported # {}

\* The stored ids of Dest.foo: one per apply on the slot not yet undone.
FooStack == getattr3(world.dict, "Dest", _ORIGINAL_IDS("foo"), <<>>)

\* The sections whose loading goes through bootstrap_plugin.
Bootstrapped ==
    {i \in DOMAIN world.sections :
        /\ ModuleOf(world.sections[i]) \in PluginModules
        /\ world.plugin[ModuleOf(world.sections[i])] \in {"None", "bootstrap"}}

\* C30: loading a [patch X] section through bootstrap_plugin applies the
\* patches declared in module X only: once the sections are loaded, Dest.foo
\* has one stored original per loaded section (each plugin module declares
\* one patch of Dest.foo), and its value is the replacement of a loaded
\* section, or the original when none was loaded.
C30_OneApplyPerLoadedSection ==
    (Loaded /\ res.exc = NoError)
    => /\ Len(FooStack) = Cardinality(Bootstrapped)
       /\ get_attribute(world.dict, "Dest", "foo").val \in
             {Function("d_foo")}
             \cup {Function(IF ModuleOf(world.sections[i]) = "patches.p1"
                            THEN "k1_foo" ELSE "k2_foo") : i \in Bootstrapped}

(***************************************************************************)
(* The slots of several destinations: apply, revert and                    *)
(* get_original_attribute on the members m and m_0 of the classes Base,    *)
(* Derived(Base) and Elsewhere, in any order.                              *)
(***************************************************************************)

\* The number of engine calls of one behaviour.
MaxOps == 2

\* The destinations: a class, a class derived from it, an unrelated class.
SlotObjs == {"Base", "Derived", "Elsewhere"}

\* The member names patched.
SlotNames == {Member, "m_0"}

\* No engine call has been made; prev is the call before the last one.
NoSlotCall ==
    [op |-> "none", dest |-> "none", name |-> "none", obj |-> 0,
     id |-> "none", exc |-> "none", ret |-> NotFound,
     own |-> FALSE, found |-> FALSE,
     prev |-> [op |-> "none", dest |-> "none", name |-> "none",
               own |-> FALSE, found |-> FALSE]]

\* The record of a call on slot (o, n) made in the dictionaries d, after the
\* call before.
SlotCall(op, d, o, n, before) ==
    [NoSlotCall EXCEPT
        !.op = op, !.dest = o, !.name = n,
        !.own = n \in DOMAIN d[o],
        !.found = get_attribute(d, o, n).ok,
        !.prev = [op |-> before.op, dest |-> before.dest,
                  name |-> before.name, own |-> before.own,
                  found |-> before.found]]

\* Each class defines m itself (with value 1) or not; m_0 is defined by
\* every class or by none.
InitSlots ==
    /\ \E has \in [SlotObjs -> BOOLEAN], other \in BOOLEAN :
          dict = [o \in SlotObjs |->
                    [k \in (IF has[o] THEN {Member} ELSE {})
                           \cup (IF other THEN {"m_0"} ELSE {}) |-> 1]]
    /\ layers = [o \in Objs |-> <<>>]
    /\ last = NoSlotCall
    /\ run = NoRun
    /\ patched = "Base"
    /\ res = NoResult
    /\ threads = NoThreads
    /\ world = NoWorld
    /\ built = NoBuild

\* monkey.apply(Patch(o, n, v)); the value applied is new to the slot.
ApplySlot(o, n) ==
    /\ run.n < MaxOps
    /\ Len(getattr3(dict, o, _ORIGINAL_IDS(n), <<>>)) < MaxDepth
    /\ dict' = apply(dict, Patch(o, n, run.n + 2), "default")
    /\ last' = [SlotCall("apply", dict, o, n, last) EXCEPT
                   !.obj = run.n + 2, !.id = "default"]
    /\ run' = [run EXCEPT !.n = @ + 1]
    /\ UNCHANGED <<layers, patched, res, threads, world, built>>

\* monkey.revert(Patch(o, n, _))
RevertSlot(o, n) ==
    /\ run.n < MaxOps
    /\ \E r \in {revert(dict, Patch(o, n, 0))} :
          /\ dict' = r.dict
          /\ last' = [SlotCall("revert", dict, o, n, last) EXCEPT
                         !.exc = r.exc]
    /\ run' = [run EXCEPT !.n = @ + 1]
    /\ UNCHANGED <<layers, patched, res, threads, world, built>>

\* monkey.get_original_attribute(o, n)
GetOriginalSlot(o, n) ==
    /\ run.n < MaxOps
    /\ \E r \in {get_original_attribute(dict, o, n, "default")} :
          last' = [SlotCall("get_original", dict, o, n, last) EXCEPT
                      !.id = "default",
                      !.exc = IF r.ok THEN "none" ELSE "AttributeError",
                      !.ret = r]
    /\ run' = [run EXCEPT !.n = @ + 1]
    /\ UNCHANGED <<dict, layers, patched, res, threads, world, built>>

NextSlots ==
    \/ \E o \in SlotObjs, n \in SlotNames : ApplySlot(o, n)
    \/ \E o \in SlotObjs, n \in SlotNames : RevertSlot(o, n)
    \/ \E o \in SlotObjs, n \in SlotNames : GetOriginalSlot(o, n)

SpecSlots == InitSlots /\ [][NextSlots]_vars

(* --------------------------- views of slots --------------------------- *)

\* The engine's own attribute names for member n.
InternalNames(n) ==
    {_CREATED(n), _ORIGINAL_IDS(n)}
    \cup {_ORIGINAL_ITEM(n, i) : i \in 0..(MaxDepth + MaxOps)}

\* The dictionaries with no bookkeeping for member n on object p: p as it
\* is when (p, n) is not patched but has its current value.
Unpatched(d, p, n) ==
    [d EXCEPT ![p] = [k \in DOMAIN d[p] \ InternalNames(n) |-> d[p][k]]]

\* Slot (o, n) as the engine reads it: the current value, the stored ids
\* and originals, the created flag.
SlotView(d, o, n) ==
    LET ids == getattr3(d, o, _ORIGINAL_IDS(n), <<>>)
    IN  [cur |-> get_attribute(d, o, n),
         ids |-> ids,
         items |-> [i \in 1..Len(ids) |->
                       getattr(d, o, _ORIGINAL_ITEM(n, i - 1))],
         created |-> getattr3(d, o, _CREATED(n), FALSE)]

\* Neither class is the other nor a base of the other.
Unrelated(o, p) ==
    /\ o # p
    /\ \A i \in DOMAIN getmro(o) : getmro(o)[i] # p
    /\ \A i \in DOMAIN getmro(p) : getmro(p)[i] # o

\* C31: the stack and the created flag of slot (Derived, M) are independent
\* of the bookkeeping of (Base, M): an apply, revert or
\* get_original_attribute on (Derived, M) has the outcome, and leaves
\* Derived as, the same call does when (Base, M) holds the same value and
\* is not patched.
C31_DerivedSlotIndependent ==
    [][\A n \in SlotNames :
          (last'.dest = "Derived" /\ last'.name = n /\ run'.n = run.n + 1)
          => LET alone == Unpatched(dict, "Base", n)
                 patch == Patch("Derived", n, last'.obj)
             IN  IF last'.op = "apply"
                 THEN dict'["Derived"] =
                          apply(alone, patch, "default")["Derived"]
                 ELSE IF last'.op = "revert"
                 THEN /\ last'.exc = revert(alone, patch).exc
                      /\ dict'["Derived"] = revert(alone, patch).dict["Derived"]
                 ELSE last'.ret =
                          get_original_attribute(alone, "Derived", n, "default")
      ]_vars

\* C32: a destination that has no own definition of M but obtains one from
\* an ancestor is, after apply followed by revert on (D, M), again without
\* an own definition of M.
C32_RevertLeavesNoOwnDefinition ==
    (/\ last.op = "revert" /\ last.exc = "none"
     /\ last.prev.op = "apply"
     /\ last.prev.dest = last.dest /\ last.prev.name = last.name
     /\ ~last.prev.own /\ last.prev.found)
    => last.name \notin DOMAIN dict[last.dest]

\* C37: apply and revert on slot (D, M) leave unchanged the current value,
\* the stack and the created flag of (D, M') for the other member name M',
\* and of every slot of an unrelated destination.
C37_OtherSlotsUnchanged ==
    [][(last'.op \in {"apply", "revert"} /\ run'.n = run.n + 1)
       => \A o \in SlotObjs, n \in SlotNames :
             ((o = last'.dest /\ n # last'.name) \/ Unrelated(o, last'.dest))
             => SlotView(dict', o, n) = SlotView(dict, o, n)]_vars

\* An apply on (Derived, m) pushed onto a stack of its own while the slots
\* (Derived, m_0) and (Elsewhere, m) were patched.
C37_Witness ==
    /\ last.op = "apply" /\ last.dest = "Derived" /\ last.name = Member
    /\ SlotView(dict, "Derived", Member).ids # <<>>
    /\ \/ SlotView(dict, "Derived", "m_0").ids # <<>>
       \/ SlotView(dict, "Elsewhere", Member).ids # <<>>

(***************************************************************************)
(* create_patches, one turn of its `while stack` loop at a time, on        *)
(* templates and destinations whose nested classes may refer back to a     *)
(* class that encloses them.  built.stack and built.out are the locals of  *)
(* the call in progress.                                                   *)
(***************************************************************************)

\* The template: Tmpl declares foo and the nested class Inner; Inner
\* declares `a`, or the member Other given, a class; Thing declares Inner
\* as its member Inner.
WalkDecl(other) ==
    [c \in {"Tmpl", "TmplBase", "Inner", "Thing"} |->
        IF c = "Tmpl"
        THEN << <<"foo", Function("f_foo")>>, <<"Inner", Class("Inner")>> >>
        ELSE IF c = "Inner"
        THEN (IF other = Unset THEN << <<"a", Function("f_a")>> >>
              ELSE << <<"Other", other>> >>)
        ELSE IF c = "Thing" THEN << <<"Inner", Class("Inner")>> >>
        ELSE <<>>]

\* The destination: Dest has foo and the class DestInner as its member
\* Inner; DestInner has `a` and the member Other given; DestOther has
\* DestInner as its member Inner.
WalkDict(other) ==
    [o \in BuildClasses \cup Things |->
        IF o = "Dest"
        THEN Attrs({<<"foo", Function("d_foo")>>,
                    <<"Inner", Class("DestInner")>>})
        ELSE IF o = "DestInner"
        THEN Attrs({<<"a", Function("d_a")>>}
                   \cup (IF other = Unset THEN {} ELSE {<<"Other", other>>}))
        ELSE IF o = "DestOther" THEN Attrs({<<"Inner", Class("DestInner")>>})
        ELSE EmptyDict]

\* What the member Other of the template's Inner may be: nothing, Inner
\* itself, or Thing, which holds Inner in turn.
TemplateOthers == {Unset, Class("Inner"), Class("Thing")}

\* What the member Other of the destination's DestInner may be: nothing,
\* DestInner itself, DestOther, which holds DestInner in turn, the empty
\* class Elsewhere, or a function.
DestOthers ==
    {Unset, Class("DestInner"), Class("DestOther"), Class("Elsewhere"),
     Function("d_other")}

\* No call of create_patches is in progress or has returned.  odd tells
\* whether the while loop has taken an odd number of turns.
NoWalk == [op |-> "none", opts |-> <<>>, out |-> <<>>, stack |-> <<>>,
           exc |-> "none", odd |-> FALSE]

InitWalk ==
    /\ \E t \in TemplateOthers, d \in DestOthers :
          world = [decl |-> WalkDecl(t), dict |-> WalkDict(d),
                   data |-> [k \in {Ident(Class("Inner"))} |-> None],
                   n |-> 0]
    /\ built = NoWalk
    /\ dict = [o \in Objs |-> EmptyDict]
    /\ layers = [o \in Objs |-> <<>>]
    /\ last = NoCall
    /\ run = NoRun
    /\ patched = "Base"
    /\ res = NoResult
    /\ threads = NoThreads

\* create_patches(Dest, Tmpl, ...) is called: out = [],
\* stack = deque((root_patch,)).
StartBuild(opts) ==
    /\ built.op = "none"
    /\ built' = [NoWalk EXCEPT
                    !.op = "running", !.opts = opts,
                    !.stack = <<Patch(Class("Dest"), "", Class("Tmpl"))>>]
    /\ UNCHANGED <<dict, layers, last, run, patched, res, threads, world>>

\* One turn of `while stack`: parent_patch = stack.popleft(), then the for
\* loop over its members.
StepBuild ==
    /\ built.op = "running"
    /\ built.stack # <<>>
    /\ \E members \in {_get_members(world.decl, Head(built.stack).obj,
                                     built.opts.traverse_bases, "None",
                                     FALSE)} :
       \E r \in {members_loop(world, Head(built.stack), members, built.opts,
                              [out |-> built.out, stack |-> Tail(built.stack),
                               exc |-> "none", steps |-> <<>>,
                               w |-> world])} :
           built' = [built EXCEPT
                        !.op = IF r.exc = "none" THEN "running" ELSE "build",
                        !.out = IF r.exc = "none" THEN r.out ELSE <<>>,
                        !.stack = r.stack, !.exc = r.exc, !.odd = ~@]
    /\ UNCHANGED <<dict, layers, last, run, patched, res, threads, world>>

\* The stack is empty: return out.
ReturnBuild ==
    /\ built.op = "running"
    /\ built.stack = <<>>
    /\ built' = [built EXCEPT !.op = "build"]
    /\ UNCHANGED <<dict, layers, last, run, patched, res, threads, world>>

NextWalk ==
    \/ \E opts \in BuildOptions : StartBuild(opts)
    \/ StepBuild
    \/ ReturnBuild

\* The interpreter goes on running a call that has begun: a turn of the
\* loop that can be taken is taken, a return that can be made is made.
SpecWalk ==
    /\ InitWalk
    /\ [][NextWalk]_vars
    /\ WF_vars(StepBuild)
    /\ WF_vars(ReturnBuild)

\* C33: create_patches with recursive set terminates on every finite
\* destination and template, including when a nested class refers back to
\* a class that encloses it on both the template side and the destination
\* side: a call that has begun returns or raises.
C33_BuildTerminates ==
    (built.op = "running" /\ built.opts.recursive) ~> (built.op = "build")


(* --------------------- every declared patch once ---------------------- *)

\* The number of positions of the returned list that hold the patch p.
TimesReturned(p) == Cardinality({i \in DOMAIN built.out : built.out[i] = p})

\* Some yielded module holds the function fn as a member, top-level or of
\* a class it holds.
Reached(fn) ==
    \E k \in DOMAIN built.steps :
        Function(fn) \in TopLevel(built.steps[k]) \cup Nested(built.steps[k])

\* C34: find_patches returns each patch declared through registration
\* exactly once, also when the decorated definition is a member of more
\* than one yielded module (imported from one module into another) or of a
\* yielded module and a class inside it, and when the given roots overlap.
C34_EachDeclaredPatchOnce ==
    FindReturned =>
        \A fn \in Decorable :
            Reached(fn) =>
                \A k \in DOMAIN DeclaredOn(fn) :
                    TimesReturned(DeclaredOn(fn)[k]) = 1


(* ------------------------------ status -------------------------------- *)

\* KapuchinManager.get_status(eventtime)
get_status(manager) == [patches_loaded |-> manager.patches_loaded]

\* KapuchinExtrasSentinel.get_status(eventtime): the manager's status when
\* the hook has created the manager, else patches_loaded False.
sentinel_get_status(w) ==
    IF ~w.manager.exists
    THEN [installed |-> TRUE, patches_loaded |-> FALSE]
    ELSE [installed |-> TRUE,
          patches_loaded |-> get_status(w.manager).patches_loaded]

\* C35: the status reports patches_loaded true only when every [patch ...]
\* section has been loaded without error: in no reachable state is
\* patches_loaded true while a section failed to load or was never
\* attempted.
C35_LoadedMeansEverySectionLoaded ==
    sentinel_get_status(world).patches_loaded => Registered = world.sections


(***************************************************************************)
(* install() run several times.  PrinterConfig.check_unused_options is     *)
(* world.check_unused_options: the host's validator, or a hook that        *)
(* install() defined, which holds the value it found there as              *)
(* original_check_unused.  world.originals are the values that apply       *)
(* stored before it overwrote the attribute.  res.trace lists what one     *)
(* call of the attribute ran: "load_plugins" and "validator" in turn, and   *)
(* res.installs how often install() had run when the call was made.        *)
(***************************************************************************)

\* install() is not run more often than this.
MaxInstalls == 3

\* configfile.PrinterConfig.check_unused_options as the host defines it.
HostValidator == Function("check_unused_options")

\* The function check_unused_options that one run of install() defines.
Hook(original_check_unused) ==
    [kind |-> "hook", of |-> "check_unused_options",
     original_check_unused |-> original_check_unused]

\* The hook with a plausible slip: the original runs although load_plugins
\* raised.
RECURSIVE call(_, _)
check_unused_options_ValidatesAnyway(hook, acc) ==
    LET w == IF acc.w.manager.exists THEN acc.w
             ELSE [acc.w EXCEPT
                      !.manager = [exists |-> TRUE, patches_loaded |-> FALSE],
                      !.objects = Append(@, KAPUCHIN_MANAGER_NAME)]
        validate(r) ==
            call(hook.original_check_unused,
                 [acc EXCEPT !.w = r.w, !.exc = r.exc,
                             !.attempted = @ \o r.attempted,
                             !.logged = @ \o r.logged,
                             !.trace = Append(@, "load_plugins")])
    IN  Let(load_plugins(w), validate)

\* check_unused_options(self, config) of install(): the manager is looked
\* up, or created and registered; manager.load_plugins(config); then
\* original_check_unused(self, config), unless load_plugins raised.
check_unused_options(hook, acc) ==
    LET w == IF acc.w.manager.exists THEN acc.w
             ELSE [acc.w EXCEPT
                      !.manager = [exists |-> TRUE, patches_loaded |-> FALSE],
                      !.objects = Append(@, KAPUCHIN_MANAGER_NAME)]
        validate(r) ==
            LET loaded == [acc EXCEPT !.w = r.w, !.exc = r.exc,
                                      !.attempted = @ \o r.attempted,
                                      !.logged = @ \o r.logged,
                                      !.trace = Append(@, "load_plugins")]
            IN  IF r.exc = NoError
                THEN call(hook.original_check_unused, loaded)
                ELSE loaded
    IN  Let(load_plugins(w), validate)

\* value(self, config) for a value of the attribute: a hook runs its body,
\* the host's validator validates.
call(value, acc) ==
    IF value.kind = "hook" THEN check_unused_options(value, acc)
    ELSE [acc EXCEPT !.trace = Append(@, "validator")]

\* monkey.apply(monkey.Patch(configfile.PrinterConfig,
\* 'check_unused_options', obj)): the attribute exists, so its value is
\* stored and overwritten.
apply_hook(w, obj) ==
    [w EXCEPT !.originals = Append(@, w.check_unused_options),
              !.check_unused_options = obj]

\* install()
install(w) == apply_hook(w, Hook(w.check_unused_options))

\* The attribute has not been called.
NoHookCall == [op |-> "none", exc |-> NoError, attempted |-> <<>>,
               logged |-> <<>>, trace |-> <<>>, installs |-> 0]

InitInstall ==
    /\ \E sections \in SectionLists, plugin \in [PluginModules -> PluginKinds] :
          world = [decl |-> PluginDecl,
                   dict |-> PluginClasses.dict,
                   data |-> PluginClasses.data,
                   n |-> 0,
                   tree |-> [p \in {"patches"} |->
                               <<"patches.p1", "patches.p2">>],
                   source |-> PluginSource,
                   needs |-> [m \in {"patches"} \cup PluginModules |-> <<>>],
                   imported |-> {},
                   plugin |-> plugin,
                   sections |-> sections,
                   manager |-> [exists |-> FALSE, patches_loaded |-> FALSE],
                   objects |-> <<>>,
                   check_unused_options |-> HostValidator,
                   originals |-> <<>>]
    /\ res = NoHookCall
    /\ built = NoBuild
    /\ dict = [o \in Objs |-> EmptyDict]
    /\ layers = [o \in Objs |-> <<>>]
    /\ last = NoCall
    /\ run = NoRun
    /\ patched = "Base"
    /\ threads = NoThreads

\* load_config(config) of the [kapuchin] section runs install().
Install ==
    /\ Len(world.originals) < MaxInstalls
    /\ world' = install(world)
    /\ UNCHANGED <<dict, layers, last, run, patched, res, threads, built>>

\* The host calls PrinterConfig.check_unused_options(config).
CallCheckUnusedOptions ==
    \E r \in {call(world.check_unused_options,
                   [w |-> world, exc |-> NoError, attempted |-> <<>>,
                    logged |-> <<>>, trace |-> <<>>])} :
       /\ world' = r.w
       /\ res' = [op |-> "check_unused_options", exc |-> r.exc,
                  attempted |-> r.attempted, logged |-> r.logged,
                  trace |-> r.trace, installs |-> Len(world.originals)]
       /\ UNCHANGED <<dict, layers, last, run, patched, threads, built>>

NextInstall ==
    \/ Install
    \/ CallCheckUnusedOptions

SpecInstall == InitInstall /\ [][NextInstall]_vars

\* The number of times the call ran what.
Ran(what) == Cardinality({i \in DOMAIN res.trace : res.trace[i] = what})

\* The attribute that was called was a hook of install().
PatchedCalled == res.op = "check_unused_options" /\ res.installs >= 1

\* C36: every call of the patched check_unused_options runs plugin loading
\* first and then calls the host's original validator exactly once, however
\* many times install() has been run; when plugin loading raises, the
\* original validator is not run for that call.
C36_LoadThenValidateOnce ==
    PatchedCalled =>
        /\ res.trace[1] = "load_plugins"
        /\ \A i, j \in DOMAIN res.trace :
              (res.trace[i] = "validator" /\ i # j)
              => (j < i /\ res.trace[j] = "load_plugins")
        /\ IF res.exc = NoError THEN Ran("validator") = 1
           ELSE Ran("validator") = 0

\* install() ran more than once and a call of the hook loaded the sections
\* and validated.
C36_Witness ==
    /\ PatchedCalled
    /\ res.installs >= 2
    /\ res.exc = NoError
    /\ Ran("load_plugins") = res.installs
    /\ res.attempted # <<>>

====
